---- MODULE Spec2Model ----
(***************************************************************************)
(* EdgeSQL Lite: the transaction coordinator (RWLock, TransactionManager), *)
(* the write-ahead log (Wal), the slotted page and buffer pool             *)
(* (Page, PageManager), and recovery and checkpointing (RecoveryManager,   *)
(* CheckpointManager).                                                     *)
(*                                                                         *)
(* One module, several specifications: each one drives one subsystem and   *)
(* leaves the variables of the others at their constructed values.         *)
(***************************************************************************)
EXTENDS Integers, Sequences, FiniteSets, TLC

(***************************************************************************)
(* Bounds of the model.                                                    *)
(***************************************************************************)
\* Number of client threads of the transaction coordinator.
NThreads == 3
\* Transactions begun in one run: begin_* is not called once next_id_ passed it.
MaxTxnId == 3

\* The page ids of a table are 0..MaxPageId.
MaxPageId == 0
\* max_pages_ of the PageManager.
PoolPages == 1
\* Crashes of the process in one run.
MaxCrashes == 1
\* Calls of Wal::append (Wal::checkpoint included) in one run.
MaxAppends == 3
\* Successful calls of Wal::open in one run.
MaxOpens == 2

Threads == 1..NThreads

\* Number of threads that call the memory tracker.
NCallers == 2

Callers == 1..NCallers

\* The table ids in use.
Tables == {1}

VARIABLES
    \* ---- RWLock (src/src/concurrency/rw_lock.hpp:60-62)
    readers_,          \* int readers_{0}
    writer_,           \* bool writer_{false}
    waiting_writers_,  \* int waiting_writers_{0}
    \* ---- TransactionManager (src/src/concurrency/transaction.hpp:146-147)
    next_id_,          \* std::atomic<uint64_t> next_id_{1}
    active_count_,     \* std::atomic<uint64_t> active_count_{0}
    \* ---- the client threads
    pc,                \* where each thread stands in the call it is making
    txn,               \* the Transaction each thread holds (NoTxn: none)
    \* ---- history (not program state)
    pendingW,          \* threads between lock_write's waiting_writers_++ and their unlock_write
    ahead,             \* per reader request: the members of pendingW when it was made, not yet released
    \* ---- Wal (src/unnamed/part_006:337-343) and its file
    wal_file,          \* the records of the WAL file after its 24-byte header, as written
    wal_exists,        \* the WAL file exists at path_
    is_open_,          \* bool is_open_{false}
    current_lsn_,      \* uint64_t current_lsn_{1}
    wal_good,          \* file_.good(): no write on the stream has failed since it was opened or cleared
    \* ---- history (not program state)
    accepted,          \* the records append has accepted, with the LSN it returned, in order
    returned,          \* what every append call returned, in order
    opens,             \* how many times open() has succeeded on the file
    \* ---- PageManager (src/unnamed/part_004:137-146) and the table files
    page_manager_,     \* [buffer_pool_, lru_list_, lru_map_, next_page_id_, max_pages_, disk]
    \* ---- RecoveryManager (src/unnamed/part_007:87-89) inside recover()
    stats_,            \* RecoveryStats stats_
    records_,          \* the vector `records` that recover() read
    rec_i,             \* the record the loop of recover() stands at (from 1)
    rec_pc,            \* "idle", "replay" (inside the loop), "done" (recover() returned)
    \* ---- CheckpointManager (src/unnamed/part_007:127-129) inside checkpoint()
    last_checkpoint_lsn_,  \* uint64_t last_checkpoint_lsn_{0}
    ck_pc,             \* "idle", "flushed" (flush_all returned, the record not yet appended)
    \* ---- the thread that changes pages
    w_pc,              \* NoRecord, or the record it has logged and not yet put in its page
    \* ---- history (not program state)
    crashes,           \* how many times the process has crashed
    applied,           \* the records this call of recover() handed to apply_record, in order
    lsn_before,        \* the header LSN of every page before the last record was applied
    snap,              \* the pages when recover() last returned (NoSnap: it has not)
    snap_prev,         \* the pages when recover() returned the time before
    damage,            \* NoDamage, or how the WAL file was damaged: [kind, k]
    \* ---- Executor and its caller (src/unnamed/part_011:158-200,
    \*      src/unnamed/part_001:55-62)
    catalog_,          \* planner::Catalog &catalog_: [tables, next_table_id_]
    ctx,               \* the ExecutionContext of the last query
    result,            \* the ExecutionResult execute returned, NoResult before
    plan_,             \* the plan of the last query
    before,            \* the WAL file and the PageManager when execute was called
    history,           \* [inserted: the rows INSERT statements reported as inserted,
                       \*  redone: the records put into pages from outside the executor]
    \* ---- a Page and its caller (src/src/storage/page.hpp:100-190)
    data_,             \* the Page: the header fields and the slots in its data_
    expect,            \* per slot: the bytes of its last successful insert or update,
                       \* and whether it was deleted since
    \* ---- Arena and QueryAllocator (src/unnamed/part_013:113-117,
    \*      src/src/memory/query_allocator.hpp:110-112)
    arena_,            \* [block_size_, blocks_, current_block_, bytes_allocated_, capacity_]
    allocator_,        \* [memory_limit_, bytes_used_]
    mem_log,           \* what was asked of them: the calls since the last reset, the
                       \* calls before it, and the last call with its outcome
    \* ---- MemoryTracker (src/src/memory/memory_tracker.hpp:95-99)
    tracker_,          \* [limit_, used_, peak_, allocation_count_, failed_count_]
    calls,             \* per thread: the call it is in, its locals and where it is
    \* ---- ShutdownCoordinator and ActiveOperationGuard (src/unnamed/part_008:134-260)
    shutdown_,         \* [shutdown_started_, shutdown_complete_, current_phase_, mutex_,
                       \*  phase_callbacks_: how many callbacks each phase has]
    guard_,            \* [active_count_, g_shutdown_requested]
    sd,                \* per thread: where it is in initiate, in wait_for_phase or in
                       \* an operation, and the locals of initiate
    zone,              \* the clock against the deadline of initiate: 0 a whole second
                       \* or more is left, 1 less than a second is left, 2 it has passed
    ran,               \* history: the phases entered and the callbacks started and
                       \* finished, in order
    \* ---- the caller of RecoveryManager (src/unnamed/part_007:60-74)
    needed,            \* what needs_recovery() returned, and the WAL file it was
                       \* called on: [called, value, file]
    recovered,         \* what recover() returned: [called, value]
    \* ---- history of the callers of the buffer pool
    lru_log,           \* [used: the keys get_page returned a page for or allocate_page
                       \*  made, the latest first; last: the last operation]
    \* ---- ThreadPool (src/src/core/signal_handler.hpp:191-254) and its threads
    pool_,             \* [tasks_: the queue, stop_]
    tp                 \* the workers, the listener and the main thread: where each
                       \* is, and the history of the tasks

rwVars == <<readers_, writer_, waiting_writers_, next_id_, active_count_, pc, txn,
            pendingW, ahead>>

walVars == <<wal_file, wal_exists, is_open_, current_lsn_, wal_good, accepted, returned,
             opens>>

storeVars == <<page_manager_, stats_, records_, rec_i, rec_pc, last_checkpoint_lsn_, ck_pc, w_pc,
               crashes, applied, lsn_before, snap, snap_prev, damage>>

\* storeVars without the PageManager.
storeRest == <<stats_, records_, rec_i, rec_pc, last_checkpoint_lsn_, ck_pc, w_pc,
               crashes, applied, lsn_before, snap, snap_prev, damage>>

execVars == <<catalog_, ctx, result, plan_, before, history>>

\* The objects outside the lock, the transactions, the WAL and the store.
pageVars == <<data_, expect>>

memVars == <<arena_, allocator_, mem_log>>

trackVars == <<tracker_, calls>>

shutVars == <<shutdown_, guard_, sd, zone, ran>>

recVars == <<needed, recovered>>

\* The objects outside the lock, the WAL, the store and the recovery.
lruVars == <<lru_log>>

threadPoolVars == <<pool_, tp>>

nonRecVars == <<execVars, pageVars, memVars, trackVars, shutVars, lruVars, threadPoolVars>>

moreVars == <<nonRecVars, recVars>>

storageVars == <<walVars, storeVars, moreVars>>

\* What the WAL's own operations leave alone.
nonWalVars == <<rwVars, storeVars, moreVars>>

\* What the store's operations leave alone besides what they name.
otherVars == <<rwVars, moreVars>>

\* What a query leaves alone: it works on execVars and the PageManager.
nonExecVars == <<rwVars, walVars, storeRest, pageVars, memVars, trackVars, shutVars, recVars,
                 lruVars, threadPoolVars>>

\* What the callers of a page, of an arena and of the tracker leave alone.
nonPageVars == <<rwVars, walVars, storeVars, execVars, memVars, trackVars, shutVars, recVars,
                 lruVars, threadPoolVars>>

nonMemVars == <<rwVars, walVars, storeVars, execVars, pageVars, trackVars, shutVars, recVars,
                 lruVars, threadPoolVars>>

nonTrackVars == <<rwVars, walVars, storeVars, execVars, pageVars, memVars, shutVars, recVars,
                 lruVars, threadPoolVars>>

\* What a shutdown and the operations it waits for leave alone.
nonShutVars == <<rwVars, walVars, storeVars, execVars, pageVars, memVars, trackVars, recVars,
                 lruVars, threadPoolVars>>

vars == <<rwVars, storageVars>>

(***************************************************************************)
(* Transaction (src/src/concurrency/transaction.hpp:30-86)                 *)
(***************************************************************************)
NoTxn == [id |-> 0, read_only |-> FALSE, state |-> "NONE"]

\* Transaction::Transaction(id, read_only): state_ starts ACTIVE
NewTransaction(id, read_only) == [id |-> id, read_only |-> read_only, state |-> "ACTIVE"]

(***************************************************************************)
(* RWLock: the predicates the waits and the try-locks test.                *)
(***************************************************************************)
\* A mutant of ReadPredicate: a reader that does not look at waiting writers.
ReadPredicateNoWaiting == ~writer_

\* A mutant of ReadPredicate: a reader that does not look at the writer flag.
ReadPredicateNoWriter == waiting_writers_ = 0

\* lock_read's wait predicate; try_lock_read refuses on its negation.
ReadPredicate == ~writer_ /\ waiting_writers_ = 0

\* A mutant of WritePredicate: a writer that does not look at the writer flag.
WritePredicateNoWriter == readers_ = 0

\* lock_write's wait predicate; try_lock_write refuses on its negation.
WritePredicate == readers_ = 0 /\ ~writer_

\* The threads blocked in read_cv_.wait / write_cv_.wait.
ReadWaiters == {t \in Threads : pc[t] = "rd_wait"}
WriteWaiters == {t \in Threads : pc[t] = "wr_wait"}

\* A mutant of NotifyAllReaders: a notify_all that wakes nobody.
NotifyNoReader(p) == p

\* read_cv_.notify_all(): every thread blocked on read_cv_ is woken.
NotifyAllReaders(p) == [t \in Threads |-> IF p[t] = "rd_wait" THEN "rd_wake" ELSE p[t]]

\* write_cv_.notify_one() waking thread w (one of the blocked threads, if any).
NotifyOneWriter(p, w) == [p EXCEPT ![w] = "wr_wake"]

InitRW ==
    /\ readers_ = 0
    /\ writer_ = FALSE
    /\ waiting_writers_ = 0
    /\ next_id_ = 1
    /\ active_count_ = 0
    /\ pc = [t \in Threads |-> "idle"]
    /\ txn = [t \in Threads |-> NoTxn]
    /\ pendingW = {}
    /\ ahead = [t \in Threads |-> {}]

\* Wal::Wal(path): nothing is opened, the file is not there yet.
InitWal ==
    /\ wal_file = <<>>
    /\ wal_exists = FALSE
    /\ is_open_ = FALSE
    /\ current_lsn_ = 1
    /\ wal_good = TRUE
    /\ accepted = <<>>
    /\ returned = <<>>
    /\ opens = 0

NoRecord == [type |-> "NONE"]

NoSnap == [taken |-> FALSE, pages |-> <<>>]

NoDamage == [kind |-> "none"]

\* PageManager::PageManager(data_dir, max_pages) on the table files `disk`.
NewPageManager(disk) ==
    [buffer_pool_ |-> [key \in {} |-> 0],
     lru_list_ |-> <<>>,
     lru_map_ |-> {},
     next_page_id_ |-> [t \in Tables |-> 0],
     max_pages_ |-> PoolPages,
     disk |-> disk]

\* The objects of the store besides the PageManager, as constructed.
InitStoreRest ==
    /\ stats_ = [records_processed |-> 0, records_applied |-> 0, records_skipped |-> 0,
                 errors |-> 0, start_lsn |-> 0, end_lsn |-> 0]
    /\ records_ = <<>>
    /\ rec_i = 1
    /\ rec_pc = "idle"
    /\ last_checkpoint_lsn_ = 0
    /\ ck_pc = "idle"
    /\ w_pc = NoRecord
    /\ crashes = 0
    /\ applied = <<>>
    /\ lsn_before = <<>>
    /\ snap = NoSnap
    /\ snap_prev = NoSnap
    /\ damage = NoDamage

\* An empty data directory, and the managers as constructed.
InitStore ==
    /\ page_manager_ = NewPageManager([t \in Tables |-> [exists |-> FALSE]])
    /\ InitStoreRest

InitStorage == InitWal /\ InitStore

\* An empty catalog, and no query yet.
InitExec ==
    /\ catalog_ = [tables |-> [n \in {"t"} |-> [id |-> 0]], next_table_id_ |-> 1]
    /\ ctx = [thrown |-> FALSE]
    /\ result = [success |-> FALSE]
    /\ plan_ = [stmt |-> [type |-> "NONE"], plan |-> [type |-> "NONE"]]
    /\ before = [wal |-> <<>>, pm |-> page_manager_]
    /\ history = [inserted |-> <<>>, redone |-> 0]

\* A page after init(0).
InitPage ==
    /\ data_ = [page_id |-> 0, lsn |-> 0, slot_count |-> 0, free_space |-> 8192 - 24,
                data_start |-> 8192, dirty |-> FALSE, slots |-> <<>>]
    /\ expect = <<>>

\* An arena of one block of 16 bytes and an allocator of 16 bytes on it.
InitMem ==
    /\ arena_ = [block_size_ |-> 16, blocks_ |-> <<[size |-> 16, used |-> 0]>>,
                 current_block_ |-> 0, bytes_allocated_ |-> 0, capacity_ |-> 16]
    /\ allocator_ = [memory_limit_ |-> 16, bytes_used_ |-> 0]
    /\ mem_log = [calls |-> 0, now |-> <<>>, before |-> <<>>,
                  last |-> [call |-> "none", size |-> 0, alignment |-> 0,
                            signalled |-> FALSE, arena |-> arena_, qa |-> allocator_],
                  at_reset |-> [blocks |-> 0, capacity |-> 0]]

\* The tracker as constructed, with no call under way.
InitTrack ==
    /\ tracker_ = [limit_ |-> 4, used_ |-> 0, peak_ |-> 0, allocation_count_ |-> 0,
                   failed_count_ |-> 0]
    /\ calls = [t \in Callers |-> [pc |-> "idle", size |-> 0, current |-> 0, limit |-> 0,
                                   old_peak |-> 0, took |-> 0, result |-> "none"]]

\* The coordinator as constructed, no callback registered, no signal received.
InitShut ==
    /\ shutdown_ = [shutdown_started_ |-> FALSE, shutdown_complete_ |-> FALSE,
                    current_phase_ |-> 0, mutex_ |-> 0,
                    phase_callbacks_ |-> [p \in 0..5 |-> 0]]
    /\ guard_ = [active_count_ |-> 0, g_shutdown_requested |-> FALSE]
    /\ sd = [t \in Callers |-> [pc |-> "idle", i |-> 0, cb |-> 0, valid_ |-> FALSE]]
    /\ zone = 0
    /\ ran = <<>>

\* Neither needs_recovery() nor recover() has been called.
InitRec ==
    /\ needed = [called |-> FALSE, value |-> FALSE, file |-> <<>>]
    /\ recovered = [called |-> FALSE, value |-> FALSE]

InitLru == lru_log = [used |-> <<>>, last |-> "none"]

\* Calls of ThreadPool::submit in one run.
MaxTasks == 2
\* ThreadPool(num_threads)
NWorkers == 2

PoolWorkers == 1..NWorkers

\* ThreadPool(NWorkers): the workers are started and stand at the head of
\* worker_loop; nothing was submitted.
InitThreadPool ==
    /\ pool_ = [tasks_ |-> <<>>, stop_ |-> FALSE]
    /\ tp = [worker |-> [w \in PoolWorkers |-> [pc |-> "lock", task |-> 0]],
             listener |-> "idle",
             main |-> [pc |-> "idle", i |-> 0, calls |-> 0, returned |-> 0],
             submits |-> <<>>,
             executed |-> [k \in 1..MaxTasks |-> 0],
             finished |-> {},
             queued_at_stop |-> <<>>]

InitMore ==
    InitExec /\ InitPage /\ InitMem /\ InitTrack /\ InitShut /\ InitRec /\ InitLru
    /\ InitThreadPool

\* Every object as constructed.
Init == InitRW /\ InitStorage /\ InitMore

(***************************************************************************)
(* RWLock::lock_read, called by TransactionManager::begin_read.            *)
(* The body runs under mutex_: either the predicate holds and readers_ is  *)
(* incremented, or the thread blocks on read_cv_.                          *)
(***************************************************************************)
LockRead(t) ==
    /\ pc[t] = "idle"
    /\ UNCHANGED storageVars
    /\ next_id_ <= MaxTxnId
    /\ ahead' = [ahead EXCEPT ![t] = pendingW]
    /\ IF ReadPredicate
         THEN /\ readers_' = readers_ + 1
              /\ pc' = [pc EXCEPT ![t] = "rd_locked"]
         ELSE /\ pc' = [pc EXCEPT ![t] = "rd_wait"]
              /\ UNCHANGED readers_
    /\ UNCHANGED <<writer_, waiting_writers_, next_id_, active_count_, txn, pendingW>>

\* A thread woken from read_cv_ (notified or spuriously) re-tests the predicate.
RecheckRead(t) ==
    /\ pc[t] = "rd_wake"
    /\ UNCHANGED storageVars
    /\ IF ReadPredicate
         THEN /\ readers_' = readers_ + 1
              /\ pc' = [pc EXCEPT ![t] = "rd_locked"]
         ELSE /\ pc' = [pc EXCEPT ![t] = "rd_wait"]
              /\ UNCHANGED readers_
    /\ UNCHANGED <<writer_, waiting_writers_, next_id_, active_count_, txn, pendingW, ahead>>

(***************************************************************************)
(* RWLock::lock_write, called by TransactionManager::begin_write.          *)
(***************************************************************************)
LockWrite(t) ==
    /\ pc[t] = "idle"
    /\ UNCHANGED storageVars
    /\ next_id_ <= MaxTxnId
    /\ pendingW' = pendingW \cup {t}
    /\ IF WritePredicate
         THEN \* waiting_writers_++ ; predicate true ; waiting_writers_-- ; writer_ = true
              /\ writer_' = TRUE
              /\ pc' = [pc EXCEPT ![t] = "wr_locked"]
              /\ UNCHANGED waiting_writers_
         ELSE /\ waiting_writers_' = waiting_writers_ + 1
              /\ pc' = [pc EXCEPT ![t] = "wr_wait"]
              /\ UNCHANGED writer_
    /\ UNCHANGED <<readers_, next_id_, active_count_, txn, ahead>>

RecheckWrite(t) ==
    /\ pc[t] = "wr_wake"
    /\ UNCHANGED storageVars
    /\ IF WritePredicate
         THEN /\ waiting_writers_' = waiting_writers_ - 1
              /\ writer_' = TRUE
              /\ pc' = [pc EXCEPT ![t] = "wr_locked"]
         ELSE /\ pc' = [pc EXCEPT ![t] = "wr_wait"]
              /\ UNCHANGED <<writer_, waiting_writers_>>
    /\ UNCHANGED <<readers_, next_id_, active_count_, txn, pendingW, ahead>>

\* std::condition_variable::wait may return without a notification.
SpuriousWake(t) ==
    /\ pc[t] \in {"rd_wait", "wr_wait"}
    /\ UNCHANGED storageVars
    /\ pc' = [pc EXCEPT ![t] = IF pc[t] = "rd_wait" THEN "rd_wake" ELSE "wr_wake"]
    /\ UNCHANGED <<readers_, writer_, waiting_writers_, next_id_, active_count_, txn,
                   pendingW, ahead>>

(***************************************************************************)
(* RWLock::try_lock_write, called by TransactionManager::try_begin_write.  *)
(* std::try_to_lock may fail whatever the state of the mutex (another      *)
(* thread inside a critical section, or a spurious failure), and the call  *)
(* then returns nullptr: that outcome is TryLockFail (try_lock_read's     *)
(* refusal is the same step).                                             *)
(***************************************************************************)
TryLockWrite(t) ==
    /\ pc[t] = "idle"
    /\ UNCHANGED storageVars
    /\ next_id_ <= MaxTxnId
    /\ WritePredicate
    /\ writer_' = TRUE
    /\ pc' = [pc EXCEPT ![t] = "wr_locked"]
    /\ UNCHANGED <<readers_, waiting_writers_, next_id_, active_count_, txn, pendingW, ahead>>

TryLockFail(t) ==
    /\ pc[t] = "idle"
    /\ UNCHANGED storageVars
    /\ UNCHANGED <<readers_, writer_, waiting_writers_, next_id_, active_count_, pc, txn,
                   pendingW, ahead>>

(***************************************************************************)
(* RWLock::try_lock_read and unlock_read used directly on the lock         *)
(* (no transaction object).                                                *)
(***************************************************************************)
TryLockRead(t) ==
    /\ pc[t] = "idle"
    /\ UNCHANGED storageVars
    /\ ReadPredicate
    /\ readers_' = readers_ + 1
    /\ pc' = [pc EXCEPT ![t] = "rd_raw"]
    /\ ahead' = [ahead EXCEPT ![t] = pendingW]
    /\ UNCHANGED <<writer_, waiting_writers_, next_id_, active_count_, txn, pendingW>>

(***************************************************************************)
(* RWLock::unlock_read: readers_-- and, at zero, write_cv_.notify_one().   *)
(***************************************************************************)
UnlockReadBy(t, next_pc) ==
    /\ readers_' = readers_ - 1
    /\ ahead' = [ahead EXCEPT ![t] = {}]
    /\ IF readers_ - 1 = 0 /\ WriteWaiters # {}
         THEN \E w \in WriteWaiters :
                  pc' = NotifyOneWriter([pc EXCEPT ![t] = next_pc], w)
         ELSE pc' = [pc EXCEPT ![t] = next_pc]
    /\ UNCHANGED <<writer_, waiting_writers_, next_id_, active_count_, pendingW>>

UnlockReadRaw(t) ==
    /\ pc[t] = "rd_raw"
    /\ UNCHANGED storageVars
    /\ UnlockReadBy(t, "idle")
    /\ UNCHANGED txn

(***************************************************************************)
(* RWLock::unlock_write: writer_ = false, then one writer is notified if   *)
(* waiting_writers_ > 0, else all readers.                                 *)
(***************************************************************************)
UnlockWriteBy(t, next_pc) ==
    /\ writer_' = FALSE
    /\ pendingW' = pendingW \ {t}
    /\ ahead' = [r \in Threads |-> ahead[r] \ {t}]
    /\ IF waiting_writers_ > 0
         THEN IF WriteWaiters # {}
                THEN \E w \in WriteWaiters :
                         pc' = NotifyOneWriter([pc EXCEPT ![t] = next_pc], w)
                ELSE pc' = [pc EXCEPT ![t] = next_pc]
         ELSE pc' = NotifyAllReaders([pc EXCEPT ![t] = next_pc])
    /\ UNCHANGED <<readers_, waiting_writers_, next_id_, active_count_>>

(***************************************************************************)
(* TransactionManager::begin_read / begin_write / try_begin_write after    *)
(* the lock call returned: next_id_.fetch_add, active_count_.fetch_add,    *)
(* make_unique<Transaction>.                                               *)
(***************************************************************************)
MakeTransaction(t) ==
    /\ pc[t] \in {"rd_locked", "wr_locked"}
    /\ UNCHANGED storageVars
    /\ next_id_' = next_id_ + 1
    /\ active_count_' = active_count_ + 1
    /\ txn' = [txn EXCEPT ![t] = NewTransaction(next_id_, pc[t] = "rd_locked")]
    /\ pc' = [pc EXCEPT ![t] = "active"]
    /\ UNCHANGED <<readers_, writer_, waiting_writers_, pendingW, ahead>>

(***************************************************************************)
(* TransactionManager::commit / abort: txn.commit() or txn.abort(), then   *)
(* end_transaction: active_count_.fetch_sub(1) and the unlock.             *)
(***************************************************************************)
EndTransaction(t, new_state) ==
    /\ pc[t] = "active"
    /\ UNCHANGED storageVars
    /\ txn' = [txn EXCEPT ![t].state = new_state]
    /\ active_count_' = active_count_ - 1
    /\ pc' = [pc EXCEPT ![t] = "ending"]
    /\ UNCHANGED <<readers_, writer_, waiting_writers_, next_id_, pendingW, ahead>>

Commit(t) == EndTransaction(t, "COMMITTED")

Abort(t) == EndTransaction(t, "ABORTED")

\* end_transaction's unlock, by the kind of the transaction.
EndUnlock(t) ==
    /\ pc[t] = "ending"
    /\ UNCHANGED storageVars
    /\ IF txn[t].read_only
         THEN UnlockReadBy(t, "ended")
         ELSE /\ UnlockWriteBy(t, "ended")
    /\ UNCHANGED txn

\* The finished transaction object is destroyed (unique_ptr reset).
Release(t) ==
    /\ pc[t] = "ended"
    /\ UNCHANGED storageVars
    /\ txn' = [txn EXCEPT ![t] = NoTxn]
    /\ pc' = [pc EXCEPT ![t] = "idle"]
    /\ UNCHANGED <<readers_, writer_, waiting_writers_, next_id_, active_count_,
                   pendingW, ahead>>

NextRW ==
    \E t \in Threads :
        \/ LockRead(t)
        \/ RecheckRead(t)
        \/ LockWrite(t)
        \/ RecheckWrite(t)
        \/ SpuriousWake(t)
        \/ TryLockWrite(t)
        \/ TryLockFail(t)
        \/ TryLockRead(t)
        \/ UnlockReadRaw(t)
        \/ MakeTransaction(t)
        \/ Commit(t)
        \/ Abort(t)
        \/ EndUnlock(t)
        \/ Release(t)

\* The transaction coordinator driven by NThreads clients, each ending the
\* transaction it began once.
SpecRW == Init /\ [][NextRW]_vars

(***************************************************************************)
(* Who holds what.                                                         *)
(***************************************************************************)
ActiveWriteTxns == {t \in Threads : txn[t].state = "ACTIVE" /\ ~txn[t].read_only}

ActiveReadTxns == {t \in Threads : txn[t].state = "ACTIVE" /\ txn[t].read_only}

\* Threads to which the write lock has been granted and that have not released it.
WriteHolders ==
    {t \in Threads : \/ pc[t] = "wr_locked"
                     \/ pc[t] \in {"active", "ending"} /\ ~txn[t].read_only}

\* Threads to which a read lock has been granted and that have not released it.
ReadHolders ==
    {t \in Threads : \/ pc[t] \in {"rd_locked", "rd_raw"}
                     \/ pc[t] \in {"active", "ending"} /\ txn[t].read_only}

RECURSIVE Xor(_, _)
\* a ^ b on naturals.
Xor(a, b) ==
    IF a = 0 THEN b
    ELSE IF b = 0 THEN a
    ELSE 2 * Xor(a \div 2, b \div 2) + ((a + b) % 2)

U32(hi, lo) == [hi |-> hi, lo |-> lo]

U32Xor(a, b) == U32(Xor(a.hi, b.hi), Xor(a.lo, b.lo))

\* a >> 1 and a >> 8
U32Shr1(a) == U32(a.hi \div 2, (a.lo \div 2) + (a.hi % 2) * 32768)

U32Shr8(a) == U32(a.hi \div 256, (a.lo \div 256) + (a.hi % 256) * 256)

(***************************************************************************)
(* CRC32 (src/unnamed/part_005:18-43)                                       *)
(***************************************************************************)
\* 0xEDB88320
Crc32Poly == U32(60856, 33568)

\* 0xFFFFFFFF
U32Ones == U32(65535, 65535)

RECURSIVE Crc32TableEntry(_, _)
\* init_crc32_table's inner loop: j more rounds of
\* crc = (crc >> 1) ^ (0xEDB88320 & (-(crc & 1))).
Crc32TableEntry(crc, j) ==
    IF j = 0 THEN crc
    ELSE Crc32TableEntry(IF crc.lo % 2 = 1 THEN U32Xor(U32Shr1(crc), Crc32Poly)
                                           ELSE U32Shr1(crc),
                         j - 1)

crc32_table == [i \in 0..255 |-> Crc32TableEntry(U32(0, i), 8)]

\* crc = crc32_table[(crc ^ data[i]) & 0xFF] ^ (crc >> 8)
Crc32Step(crc, byte) == U32Xor(crc32_table[Xor(crc.lo % 256, byte)], U32Shr8(crc))

RECURSIVE Crc32Bytes(_, _, _)
Crc32Bytes(crc, data, i) ==
    IF i > Len(data) THEN crc ELSE Crc32Bytes(Crc32Step(crc, data[i]), data, i + 1)

RECURSIVE Crc32Zeros(_, _)
Crc32Zeros(crc, n) == IF n = 0 THEN crc ELSE Crc32Zeros(Crc32Step(crc, 0), n - 1)

(***************************************************************************)
(* A payload is a byte sequence; it is kept as its leading bytes followed  *)
(* by a run of `zeros` zero bytes, so that a long payload stays small.     *)
(***************************************************************************)
Payload(bytes, zeros) == [bytes |-> bytes, zeros |-> zeros]

\* payload.size()
PayloadSize(p) == Len(p.bytes) + p.zeros

RECURSIVE StripZeros(_)
StripZeros(s) ==
    IF s = <<>> \/ s[Len(s)] # 0 THEN s ELSE StripZeros(SubSeq(s, 1, Len(s) - 1))

\* The payload with the bytes of s: trailing zero bytes always go to the run.
Bytes(s) == Payload(StripZeros(s), Len(s) - Len(StripZeros(s)))

\* The first n bytes of p, and p without them (n <= PayloadSize(p)).
PTake(p, n) ==
    IF n >= Len(p.bytes) THEN Payload(p.bytes, n - Len(p.bytes))
    ELSE Bytes(SubSeq(p.bytes, 1, n))

PDrop(p, n) ==
    IF n >= Len(p.bytes) THEN Payload(<<>>, PayloadSize(p) - n)
    ELSE Payload(SubSeq(p.bytes, n + 1, Len(p.bytes)), p.zeros)

\* The bytes of a followed by the bytes of b.
PConcat(a, b) ==
    IF b.bytes = <<>> THEN Payload(a.bytes, a.zeros + b.zeros)
    ELSE Payload(a.bytes \o [i \in 1..a.zeros |-> 0] \o b.bytes, b.zeros)

\* p with its i-th byte (from 1) set to v.
PSetByte(p, i, v) == PConcat(PTake(p, i - 1), PConcat(Bytes(<<v>>), PDrop(p, i)))

\* The i-th byte of p (from 1).
PByte(p, i) == IF i <= Len(p.bytes) THEN p.bytes[i] ELSE 0

\* compute_crc32(payload.data(), payload.size())
compute_crc32(p) == U32Xor(Crc32Zeros(Crc32Bytes(U32Ones, p.bytes, 1), p.zeros), U32Ones)


(***************************************************************************)
(* WalRecord and the image of a record in the WAL file                     *)
(* (src/unnamed/part_006:180-243, src/unnamed/part_005:49-88)              *)
(***************************************************************************)
\* sizeof(WalRecordHeader)
WalRecordHeaderSize == 32

\* std::vector<uint8_t> buffer(64 * 1024) in read_from
ReadBufferSize == 64 * 1024

\* The fields of a record its caller sets before append.
WalRecord(type, table_id, page_id, slot_id, payload) ==
    [type |-> type, table_id |-> table_id, page_id |-> page_id, slot_id |-> slot_id,
     payload |-> payload]

\* What serialize puts in the file for rec once append has filled its header
\* in. The crc32 field holds compute_crc32 of crc_src, the payload append was
\* given; payload is the payload bytes as the file holds or held them, and
\* nbytes says how many bytes of the image the file holds (all of them, when
\* written).
serialize(rec, lsn) ==
    [lsn |-> lsn,
     length |-> WalRecordHeaderSize + PayloadSize(rec.payload),
     crc_src |-> rec.payload,
     type |-> rec.type, table_id |-> rec.table_id, page_id |-> rec.page_id,
     slot_id |-> rec.slot_id,
     payload |-> rec.payload,
     nbytes |-> WalRecordHeaderSize + PayloadSize(rec.payload)]

\* A mutant of is_valid: the CRC is not compared.
AlwaysValid(img) == TRUE

\* WalRecord::is_valid on the record deserialize built from an image.
is_valid(img) == compute_crc32(img.crc_src) = compute_crc32(img.payload)

\* WalRecord::deserialize(data, length) on the bytes of an image, the
\* payload bytes all there: the header is copied, the payload is the
\* header.length - 32 bytes after it, and the result is is_valid().
deserialize(img, length) ==
    /\ length >= WalRecordHeaderSize
    /\ length >= img.length
    /\ is_valid(img)

\* The record deserialize leaves in its object.
RecordOf(img) ==
    [lsn |-> img.lsn, length |-> img.length, type |-> img.type,
     table_id |-> img.table_id, page_id |-> img.page_id, slot_id |-> img.slot_id,
     payload |-> img.payload]

\* The record a caller expects back for rec appended under lsn.
Logged(rec, lsn) == RecordOf(serialize(rec, lsn))

RECURSIVE ReadLoop(_, _, _)
\* The loop of read_from, at the i-th image of the file.
ReadLoop(file, i, start_lsn) ==
    IF i > Len(file) THEN <<>>
    ELSE LET img == file[i] IN
         IF img.nbytes < WalRecordHeaderSize THEN <<>>
         ELSE IF img.length < WalRecordHeaderSize \/ img.length > ReadBufferSize THEN <<>>
         ELSE IF img.nbytes - WalRecordHeaderSize < img.length - WalRecordHeaderSize THEN <<>>
         ELSE IF ~deserialize(img, img.length) THEN <<>>
         ELSE (IF img.lsn >= start_lsn THEN <<RecordOf(img)>> ELSE <<>>)
              \o ReadLoop(file, i + 1, start_lsn)

\* Wal::read_from(start_lsn, records) on an open WAL: the records it leaves
\* in `records`. The loop is not entered when the stream is not good().
read_from(file, good, start_lsn) == IF good THEN ReadLoop(file, 1, start_lsn) ELSE <<>>

\* Wal::read_all
read_all(file, good) == read_from(file, good, 1)

RECURSIVE ReadHeaderScan(_, _, _)
\* The loop of read_header, at the i-th image of the file: current_lsn_ when
\* it ends.
ReadHeaderScan(file, i, lsn) ==
    IF i > Len(file) THEN lsn
    ELSE LET img == file[i] IN
         IF img.nbytes < WalRecordHeaderSize THEN lsn
         ELSE IF img.length < WalRecordHeaderSize THEN lsn
         ELSE IF img.nbytes < img.length THEN img.lsn + 1
         ELSE ReadHeaderScan(file, i + 1, img.lsn + 1)

\* A mutant of read_header: an open that does not scan the records.
ReadHeaderNoScan(file, lsn) == lsn

\* Wal::read_header on a file with a valid file header.
read_header(file, lsn) == ReadHeaderScan(file, 1, lsn)


(***************************************************************************)
(* Wal: the operations (src/unnamed/part_005:92-344)                       *)
(***************************************************************************)
\* Wal::append(rec). Closed: 0. Otherwise the record is written under
\* current_lsn_; when the write leaves the stream good (written) that LSN is
\* returned and current_lsn_ incremented, and when it does not, 0 is returned.
\* A write on a stream that is not good writes nothing.
Wal_append(rec, written) ==
    /\ Len(returned) < MaxAppends
    /\ IF ~is_open_
         THEN /\ returned' = Append(returned, 0)
              /\ UNCHANGED <<wal_file, current_lsn_, wal_good, accepted>>
         ELSE IF wal_good /\ written
         THEN /\ wal_file' = Append(wal_file, serialize(rec, current_lsn_))
              /\ accepted' = Append(accepted, Logged(rec, current_lsn_))
              /\ returned' = Append(returned, current_lsn_)
              /\ current_lsn_' = current_lsn_ + 1
              /\ UNCHANGED wal_good
         ELSE /\ wal_good' = FALSE
              /\ returned' = Append(returned, 0)
              /\ UNCHANGED <<wal_file, current_lsn_, accepted>>
    /\ UNCHANGED <<wal_exists, is_open_, opens>>

\* Wal::open. An existing file is scanned by read_header; a missing one is
\* created with its header. A WAL that is open already is left as it is.
Wal_open ==
    /\ ~is_open_
    /\ opens < MaxOpens
    /\ IF wal_exists
         THEN /\ current_lsn_' = read_header(wal_file, current_lsn_)
              /\ UNCHANGED <<wal_file, wal_exists>>
         ELSE /\ wal_exists' = TRUE
              /\ wal_file' = <<>>
              /\ UNCHANGED current_lsn_
    /\ is_open_' = TRUE
    /\ wal_good' = TRUE
    /\ opens' = opens + 1
    /\ UNCHANGED <<accepted, returned>>

\* Wal::close
Wal_close ==
    /\ is_open_
    /\ is_open_' = FALSE
    /\ UNCHANGED <<wal_file, wal_exists, current_lsn_, wal_good, accepted, returned, opens>>

\* Wal::~Wal followed by Wal::Wal on the same path: the process restarts.
Wal_restart ==
    /\ opens < MaxOpens
    /\ is_open_' = FALSE
    /\ current_lsn_' = 1
    /\ wal_good' = TRUE
    /\ UNCHANGED <<wal_file, wal_exists, accepted, returned, opens>>

\* The record Wal::checkpoint appends.
CheckpointRecord == WalRecord("CHECKPOINT", 0, 0, 0, Bytes(<<>>))


\* Wal::read_from and Wal::read_all: the records are read_from(wal_file,
\* wal_good, start_lsn); the stream is cleared and put back at the end.
Wal_read ==
    /\ is_open_
    /\ wal_good' = TRUE
    /\ UNCHANGED <<wal_file, wal_exists, is_open_, current_lsn_, accepted, returned, opens>>

(***************************************************************************)
(* The WAL driven by a client that opens, appends, reads, closes, reopens  *)
(* and restarts, with writes that may fail.                                *)
(***************************************************************************)
\* A payload one byte too long for the record to fit read_from's buffer.
LongPayload == Payload(<<>>, ReadBufferSize - WalRecordHeaderSize + 1)

\* The records the client appends.
WalInputs ==
    { WalRecord("INSERT", 1, 0, 0, Bytes(<<1>>)),
      WalRecord("UPDATE", 1, 0, 0, Bytes(<<1, 0>>)),
      WalRecord("DELETE", 2, 1, 1, Bytes(<<>>)),
      WalRecord("INSERT", 1, 0, 1, LongPayload) }

WalAppend ==
    /\ \E rec \in WalInputs, written \in BOOLEAN : Wal_append(rec, written)
    /\ UNCHANGED nonWalVars

\* Wal::checkpoint
WalCheckpoint ==
    /\ \E written \in BOOLEAN : Wal_append(CheckpointRecord, written)
    /\ UNCHANGED nonWalVars

WalOpen == Wal_open /\ UNCHANGED nonWalVars

WalClose == Wal_close /\ UNCHANGED nonWalVars

WalRestart == Wal_restart /\ UNCHANGED nonWalVars

WalRead == Wal_read /\ UNCHANGED nonWalVars

NextWal ==
    \/ WalAppend
    \/ WalCheckpoint
    \/ WalOpen
    \/ WalClose
    \/ WalRestart
    \/ WalRead

SpecWal == Init /\ [][NextWal]_vars

(***************************************************************************)
(* C6: on an open WAL whose stream is good, read_all returns exactly the   *)
(* records append has accepted, in the order of their acceptance, each     *)
(* with the type, ids, payload and LSN it was accepted with.               *)
(***************************************************************************)
C6_RoundTrip == is_open_ /\ wal_good => read_all(wal_file, wal_good) = accepted

PAGE_SIZE == 8192

\* sizeof(PageHeader), sizeof(SlotEntry)
PageHeaderSize == 24

SlotEntrySize == 4

\* SlotEntry::mark_deleted sets offset to 0xFFFF.
DeletedOffset == 65535

\* static_cast<uint16_t>
U16(x) == x % 65536

\* Page::init(page_id)
Page_init(page_id) ==
    [page_id |-> page_id, lsn |-> 0, slot_count |-> 0,
     free_space |-> U16(PAGE_SIZE - PageHeaderSize),
     data_start |-> U16(PAGE_SIZE),
     dirty |-> FALSE,
     slots |-> <<>>]

\* SlotEntry::is_empty, SlotEntry::is_deleted
is_empty(slot) == slot.offset = 0 /\ slot.length = 0

is_deleted(slot) == slot.offset = DeletedOffset

\* Page::get_slot(slot_index) # nullptr
has_slot(page, slot_index) == slot_index < page.slot_count

\* Page::get_record(slot_index, ..) returns true
get_record(page, slot_index) ==
    /\ has_slot(page, slot_index)
    /\ ~is_empty(page.slots[slot_index + 1])
    /\ ~is_deleted(page.slots[slot_index + 1])

\* Page::slot_directory_end
slot_directory_end(page) == U16(PageHeaderSize + page.slot_count * SlotEntrySize)

\* The bytes from..to-1 of the memory a live slot points at, after memcpy
\* wrote `length` bytes of data at offset.
Overlaid(slot, offset, data, length, from, to) ==
    IF from >= to THEN slot
    ELSE [slot EXCEPT !.data =
             PConcat(PTake(@, from - slot.offset),
                     PConcat(PTake(PDrop(data, from - offset), to - from),
                             PDrop(@, to - slot.offset)))]

\* The larger and the smaller of two offsets.
Later(a, b) == IF a >= b THEN a ELSE b

Earlier(a, b) == IF a <= b THEN a ELSE b

\* The slots after memcpy wrote `length` bytes of data at offset for the
\* slot of index self: the bytes of every other live slot that lie in the
\* written range are the bytes written.
WrittenOver(slots, offset, data, length, self) ==
    [j \in 1..Len(slots) |->
        IF j = self + 1 \/ is_deleted(slots[j]) THEN slots[j]
        ELSE Overlaid(slots[j], offset, data, length,
                      Later(slots[j].offset, offset),
                      Earlier(slots[j].offset + PayloadSize(slots[j].data),
                              offset + length))]

\* Page::insert_record(data, length, ..): [ok, page].
insert_record(page, data, length) ==
    LET required_space == U16(length + SlotEntrySize)
        record_offset == U16(page.data_start - length)
        slot_dir_end == U16(slot_directory_end(page) + SlotEntrySize)
    IN  IF page.free_space < required_space THEN [ok |-> FALSE, page |-> page]
        ELSE IF record_offset < slot_dir_end THEN [ok |-> FALSE, page |-> page]
        ELSE [ok |-> TRUE,
              page |-> [page EXCEPT
                  !.slots = Append(WrittenOver(@, record_offset, data, length, Len(@)),
                                   [offset |-> record_offset, length |-> length,
                                    data |-> PTake(data, length)]),
                  !.slot_count = U16(@ + 1),
                  !.data_start = record_offset,
                  !.free_space = U16(@ - required_space),
                  !.dirty = TRUE]]

\* Page::delete_record(slot_index): [ok, page].
delete_record(page, slot_index) ==
    IF ~get_record(page, slot_index) THEN [ok |-> FALSE, page |-> page]
    ELSE [ok |-> TRUE,
          page |-> [page EXCEPT !.slots[slot_index + 1].offset = DeletedOffset,
                                !.slots[slot_index + 1].length = 0,
                                !.dirty = TRUE]]

\* Page::update_record(slot_index, data, length): [ok, page].
update_record(page, slot_index, data, length) ==
    IF ~get_record(page, slot_index) THEN [ok |-> FALSE, page |-> page]
    ELSE IF length > page.slots[slot_index + 1].length THEN [ok |-> FALSE, page |-> page]
    ELSE [ok |-> TRUE,
          page |-> [page EXCEPT
              !.slots = WrittenOver(@, @[slot_index + 1].offset, data, length, slot_index),
              !.slots[slot_index + 1].data =
                  PConcat(PTake(data, length), PDrop(@, length)),
              !.slots[slot_index + 1].length = length,
              !.dirty = TRUE]]


(***************************************************************************)
(* PageManager (src/unnamed/part_004:115-146,                              *)
(*              src/src/storage/page_manager.cpp:17-321)                   *)
(* Its members are gathered in a record pm: buffer_pool_ (a function on    *)
(* the resident keys), lru_list_, lru_map_ (the keys that have an          *)
(* iterator: it always points at the frontmost occurrence, the last one    *)
(* pushed), next_page_id_, max_pages_, and the table files (disk). A table *)
(* file is [exists, pages]: a sequence of pages, ZeroPage where nothing    *)
(* was written.                                                            *)
(***************************************************************************)
\* A table file that does not exist.
NoFile == [exists |-> FALSE]

\* PAGE_SIZE zero bytes.
ZeroPage == [magic |-> 0]

\* nullptr for a Page*.
NoPage == [magic |-> -1]

PageKey(table_id, page_id) == <<table_id, page_id>>

\* buffer_pool_ with no entry.
EmptyPool == [key \in {} |-> 0]

\* f with x mapped to v, and f without x.
MapPut(f, x, v) == [y \in DOMAIN f \cup {x} |-> IF y = x THEN v ELSE f[y]]

MapErase(f, x) == [y \in DOMAIN f \ {x} |-> f[y]]

\* s without its i-th element.
SeqErase(s, i) == SubSeq(s, 1, i - 1) \o SubSeq(s, i + 1, Len(s))

\* The position of the frontmost occurrence of key in list (0: none).
FirstIndex(list, key) ==
    IF \E i \in 1..Len(list) : list[i] = key
    THEN CHOOSE i \in 1..Len(list) :
             list[i] = key /\ \A j \in 1..(i - 1) : list[j] # key
    ELSE 0

\* The page of key in its table file (NoPage: load_page would fail).
DiskPage(pm, key) ==
    LET file == pm.disk[key[1]]
    IN  IF file = NoFile THEN NoPage
        ELSE IF Len(file.pages) < key[2] + 1 THEN NoPage
        ELSE IF file.pages[key[2] + 1] = ZeroPage THEN NoPage
        ELSE file.pages[key[2] + 1]

\* PageManager::write_page(table_id, page_id, page): [ok, disk]. The file is
\* created when missing and the page is written at page_id * PAGE_SIZE;
\* `written` says whether that succeeds.
write_page(disk, key, page, written) ==
    IF ~written THEN [ok |-> FALSE, disk |-> disk]
    ELSE LET file == IF disk[key[1]] = NoFile THEN <<>> ELSE disk[key[1]].pages
             n == IF Len(file) > key[2] + 1 THEN Len(file) ELSE key[2] + 1
             file2 == [i \in 1..n |-> IF i = key[2] + 1 THEN page
                                      ELSE IF i <= Len(file) THEN file[i]
                                      ELSE ZeroPage]
         IN  [ok |-> TRUE, disk |-> [disk EXCEPT ![key[1]] = [exists |-> TRUE, pages |-> file2]]]

\* An evict_page that evicts nothing.
KeepPage(pm, written) == pm

\* PageManager::evict_page: the key nearest the back of lru_list_ that is in
\* buffer_pool_ goes, written first when dirty, whatever the write returns.
evict_page(pm, written) ==
    LET cand == {i \in 1..Len(pm.lru_list_) : pm.lru_list_[i] \in DOMAIN pm.buffer_pool_}
    IN  IF cand = {} THEN pm
        ELSE LET i == CHOOSE c \in cand : \A d \in cand : d <= c
                 key == pm.lru_list_[i]
                 entry == pm.buffer_pool_[key]
                 disk2 == IF entry.dirty
                            THEN write_page(pm.disk, key, entry.page, written).disk
                            ELSE pm.disk
             IN  [pm EXCEPT !.disk = disk2,
                            !.buffer_pool_ = MapErase(@, key),
                            !.lru_map_ = @ \ {key},
                            !.lru_list_ = SeqErase(@, i)]

RECURSIVE EvictIfFull(_, _)
\* while (buffer_pool_.size() >= max_pages_) evict_page(); a round in which
\* evict_page finds nothing to evict would be repeated for ever, and the
\* loop is left there.
EvictIfFull(pm, written) ==
    IF Cardinality(DOMAIN pm.buffer_pool_) >= pm.max_pages_
       /\ evict_page(pm, written) # pm
    THEN EvictIfFull(evict_page(pm, written), written)
    ELSE pm

\* The entry into buffer_pool_, lru_list_.push_front(key), lru_map_[key].
PoolInsert(pm, key, page, dirty) ==
    [pm EXCEPT !.buffer_pool_ = MapPut(@, key, [page |-> page, dirty |-> dirty]),
               !.lru_list_ = <<key>> \o @,
               !.lru_map_ = @ \cup {key}]

\* load_page once the pool has room: the page is read from its file and
\* entered clean, or the file or the page is not there.
LoadFromFile(pm, key) ==
    IF DiskPage(pm, key) = NoPage THEN [ok |-> FALSE, pm |-> pm]
    ELSE [ok |-> TRUE, pm |-> PoolInsert(pm, key, DiskPage(pm, key), FALSE)]

\* PageManager::load_page(table_id, page_id): [ok, pm].
load_page(pm, key, written) == LoadFromFile(EvictIfFull(pm, written), key)

\* What get_page returns after load_page returned r.
Loaded(r, key) ==
    [page |-> IF r.ok THEN r.pm.buffer_pool_[key].page ELSE NoPage, pm |-> r.pm]

\* PageManager::get_page(table_id, page_id): [page, pm], page = NoPage for
\* nullptr. The caller changes the page it got through SetPage.
get_page(pm, key, written) ==
    IF key \in DOMAIN pm.buffer_pool_
    THEN [page |-> pm.buffer_pool_[key].page,
          pm |-> IF key \in pm.lru_map_
                   THEN [pm EXCEPT !.lru_list_ =
                            <<key>> \o SeqErase(@, FirstIndex(@, key))]
                   ELSE pm]
    ELSE Loaded(load_page(pm, key, written), key)

\* A write through the Page* that get_page returned.
SetPage(pm, key, page) == [pm EXCEPT !.buffer_pool_[key].page = page]

\* PageManager::allocate_page(table_id): [page_id, pm].
allocate_page(pm, table_id, written) ==
    [page_id |-> pm.next_page_id_[table_id],
     pm |-> PoolInsert(EvictIfFull([pm EXCEPT !.next_page_id_[table_id] = @ + 1], written),
                       PageKey(table_id, pm.next_page_id_[table_id]),
                       Page_init(pm.next_page_id_[table_id]), TRUE)]

\* PageManager::mark_dirty(table_id, page_id)
mark_dirty(pm, key) ==
    IF key \in DOMAIN pm.buffer_pool_
    THEN [pm EXCEPT !.buffer_pool_[key].dirty = TRUE,
                    !.buffer_pool_[key].page.dirty = TRUE]
    ELSE pm

\* The entry of key after write_page returned w: clean when it succeeded.
Flushed(pm, key, w) ==
    IF ~w.ok THEN [ok |-> FALSE, pm |-> pm]
    ELSE [ok |-> TRUE,
          pm |-> [pm EXCEPT !.disk = w.disk,
                            !.buffer_pool_[key].dirty = FALSE,
                            !.buffer_pool_[key].page.dirty = FALSE]]

\* PageManager::flush_page(table_id, page_id): [ok, pm].
flush_page(pm, key, written) ==
    IF key \notin DOMAIN pm.buffer_pool_ \/ ~pm.buffer_pool_[key].dirty
    THEN [ok |-> TRUE, pm |-> pm]
    ELSE Flushed(pm, key, write_page(pm.disk, key, pm.buffer_pool_[key].page, written))

\* One round of the loop of flush_all: a dirty page is written and, when the
\* write succeeded, made clean and counted.
FlushNext(r, key, okKeys) ==
    IF r.pm.buffer_pool_[key].dirty /\ key \in okKeys
    THEN [count |-> r.count + 1, pm |-> flush_page(r.pm, key, TRUE).pm]
    ELSE r

RECURSIVE FlushKeys(_, _, _)
\* The loop of flush_all over the keys that are left: the write of key
\* succeeds iff key is in okKeys. [count, pm]
FlushKeys(r, keys, okKeys) ==
    IF keys = {} THEN r
    ELSE FlushKeys(FlushNext(r, CHOOSE k \in keys : TRUE, okKeys),
                   keys \ {CHOOSE k \in keys : TRUE}, okKeys)

\* PageManager::flush_all: [count, pm].
flush_all(pm, okKeys) ==
    FlushKeys([count |-> 0, pm |-> pm], DOMAIN pm.buffer_pool_, okKeys)

\* PageManager::close: the dirty pages are written, whatever the writes
\* return, and the pool is emptied.
PageManager_close(pm, okKeys) ==
    [flush_all(pm, okKeys).pm EXCEPT !.buffer_pool_ = EmptyPool,
                                     !.lru_list_ = <<>>,
                                     !.lru_map_ = {}]


(***************************************************************************)
(* RecoveryManager (src/unnamed/part_007:20-90,                            *)
(*                  src/src/storage/page_manager.cpp:458-681)              *)
(* The apply functions take the PageManager record and the statistics and  *)
(* give back [ok, pm, stats]; `written` is the outcome of the page write   *)
(* an eviction inside them makes.                                          *)
(***************************************************************************)
\* No call of needs_recovery() and of recover() in this run of the process.
NotCalled == [called |-> FALSE, value |-> FALSE, file |-> <<>>]

NotReturned == [called |-> FALSE, value |-> FALSE]

\* A mutant of RecoverReturn: recover() returns true whatever it counted.
ReturnsTrue(stats) == TRUE

\* The last line of recover(): return stats_.errors == 0.
RecoverReturn(stats) == stats.errors = 0

\* RecoveryStats{}
NewStats ==
    [records_processed |-> 0, records_applied |-> 0, records_skipped |-> 0,
     errors |-> 0, start_lsn |-> 0, end_lsn |-> 0]

Applied(ok, pm, stats) == [ok |-> ok, pm |-> pm, stats |-> stats]

RecordKey(record) == PageKey(record.table_id, record.page_id)

\* A mutant of find_last_checkpoint: it finds no CHECKPOINT record.
FindNoCheckpoint(records) == 0

\* RecoveryManager::find_last_checkpoint over the records read_all returned.
find_last_checkpoint(records) ==
    LET cps == {i \in 1..Len(records) : records[i].type = "CHECKPOINT"}
    IN  IF cps = {} THEN 0
        ELSE records[CHOOSE i \in cps : \A j \in cps : j <= i].lsn

\* apply_insert's test for a record that is there already.
InsertSeesRecord(page, slot_id) == slot_id < page.slot_count /\ get_record(page, slot_id)

\* The page apply_insert works on, as [key, page, pm].
Located(key, g) == [key |-> key, page |-> g.page, pm |-> g.pm]

\* The page allocate_page made for apply_insert, got again through get_page.
LocateNew(a, table_id, written) ==
    Located(PageKey(table_id, a.page_id),
            get_page(a.pm, PageKey(table_id, a.page_id), written))

\* The first lines of apply_insert: get_page, and allocate_page when
\* there is no such page.
LocateOrAllocate(g, record, written) ==
    IF g.page # NoPage THEN Located(RecordKey(record), g)
    ELSE LocateNew(allocate_page(g.pm, record.table_id, written), record.table_id, written)

\* The end of apply_insert, insert_record having returned ins.
InsertDone(loc, ins, stats, record) ==
    IF ~ins.ok THEN Applied(FALSE, loc.pm, stats)
    ELSE Applied(TRUE,
                 mark_dirty(SetPage(loc.pm, loc.key, [ins.page EXCEPT !.lsn = record.lsn]),
                            RecordKey(record)),
                 stats)

\* apply_insert on the page it located.
InsertAt(loc, stats, record) ==
    IF loc.page = NoPage THEN Applied(FALSE, loc.pm, stats)
    ELSE IF InsertSeesRecord(loc.page, record.slot_id)
    THEN Applied(TRUE, loc.pm, [stats EXCEPT !.records_skipped = @ + 1])
    ELSE InsertDone(loc,
                    insert_record(loc.page, record.payload,
                                  U16(PayloadSize(record.payload))),
                    stats, record)

\* RecoveryManager::apply_insert
apply_insert(pm, stats, record, written) ==
    InsertAt(LocateOrAllocate(get_page(pm, RecordKey(record), written), record, written),
             stats, record)

\* The LSN check of apply_update and apply_delete.
PageHasLsn(page, record) == page.lsn >= record.lsn

\* The page of record with the change res.page and the LSN of record, dirty.
Changed(pm, res, record) ==
    mark_dirty(SetPage(pm, RecordKey(record), [res.page EXCEPT !.lsn = record.lsn]),
               RecordKey(record))

\* The end of apply_update, update_record having returned upd.
UpdateDone(g, upd, stats, record) ==
    IF ~upd.ok THEN Applied(FALSE, g.pm, stats)
    ELSE Applied(TRUE, Changed(g.pm, upd, record), stats)

\* apply_update on what get_page returned.
UpdateAt(g, stats, record) ==
    IF g.page = NoPage THEN Applied(FALSE, g.pm, stats)
    ELSE IF PageHasLsn(g.page, record)
    THEN Applied(TRUE, g.pm, [stats EXCEPT !.records_skipped = @ + 1])
    ELSE UpdateDone(g,
                    update_record(g.page, record.slot_id, record.payload,
                                  U16(PayloadSize(record.payload))),
                    stats, record)

\* RecoveryManager::apply_update
apply_update(pm, stats, record, written) ==
    UpdateAt(get_page(pm, RecordKey(record), written), stats, record)

\* The end of apply_delete, delete_record having returned del.
DeleteDone(g, del, stats, record) ==
    IF ~del.ok THEN Applied(TRUE, g.pm, [stats EXCEPT !.records_skipped = @ + 1])
    ELSE Applied(TRUE, Changed(g.pm, del, record), stats)

\* apply_delete on what get_page returned.
DeleteAt(g, stats, record) ==
    IF g.page = NoPage THEN Applied(FALSE, g.pm, stats)
    ELSE IF PageHasLsn(g.page, record)
    THEN Applied(TRUE, g.pm, [stats EXCEPT !.records_skipped = @ + 1])
    ELSE DeleteDone(g, delete_record(g.page, record.slot_id), stats, record)

\* RecoveryManager::apply_delete
apply_delete(pm, stats, record, written) ==
    DeleteAt(get_page(pm, RecordKey(record), written), stats, record)

\* The end of apply_record: records_applied or errors is incremented.
Counted(r) ==
    [pm |-> r.pm,
     stats |-> IF r.ok THEN [r.stats EXCEPT !.records_applied = @ + 1]
               ELSE [r.stats EXCEPT !.errors = @ + 1]]

\* RecoveryManager::apply_record: [pm, stats]; it returns true always.
apply_record(pm, stats, record, written) ==
    Counted(CASE record.type = "INSERT" -> apply_insert(pm, stats, record, written)
              [] record.type = "UPDATE" -> apply_update(pm, stats, record, written)
              [] record.type = "DELETE" -> apply_delete(pm, stats, record, written)
              [] record.type \in {"CREATE_TABLE", "DROP_TABLE", "COMMIT", "ROLLBACK"}
                   -> Applied(TRUE, pm, stats)
              [] OTHER -> Applied(FALSE, pm, stats))

(***************************************************************************)
(* The pages as a reader finds them: the resident copy of a page, or the   *)
(* copy in the table file when the page is not resident.                   *)
(***************************************************************************)
Keys == {PageKey(t, p) : t \in Tables, p \in 0..MaxPageId}

PageView(pm, key) ==
    IF key \in DOMAIN pm.buffer_pool_ THEN pm.buffer_pool_[key].page ELSE DiskPage(pm, key)

\* Every key that names a page somewhere.
AllKeys(pm) ==
    Keys \cup DOMAIN pm.buffer_pool_
         \cup UNION {{PageKey(t, i - 1) : i \in 1..(IF pm.disk[t] = NoFile THEN 0
                                                     ELSE Len(pm.disk[t].pages))} : t \in Tables}

\* The bytes of every page but the FLAG_DIRTY bit of its header.
PagesView(pm) ==
    [key \in AllKeys(pm) |->
        IF PageView(pm, key) = NoPage THEN NoPage
        ELSE [PageView(pm, key) EXCEPT !.dirty = FALSE]]

\* The header LSN of every page (0 where there is no page).
LsnView(pm) ==
    [key \in AllKeys(pm) |->
        IF PageView(pm, key) = NoPage THEN 0 ELSE PageView(pm, key).lsn]

(***************************************************************************)
(* The thread that changes pages. Nothing in the repository logs a page    *)
(* change (Executor::execute_insert only counts rows), so it follows the   *)
(* rule of the design document (src/unnamed/part_015:153-158): the WAL     *)
(* record is written first, then the data page, which takes the record's   *)
(* LSN and is marked dirty.                                                *)
(***************************************************************************)
InsertPayloads == {Bytes(<<1, 2>>)}

UpdatePayloads == {Bytes(<<3>>)}

\* The changes the thread may make to the page of key.
Mutations(key, page) ==
    {WalRecord("INSERT", key[1], key[2], page.slot_count, pl) : pl \in InsertPayloads}
    \cup {WalRecord("UPDATE", key[1], key[2], slot_id, pl) :
            slot_id \in {i \in 0..(page.slot_count - 1) :
                            get_record(page, i) /\ page.slots[i + 1].length >= 1},
            pl \in UpdatePayloads}
    \cup {WalRecord("DELETE", key[1], key[2], slot_id, Bytes(<<>>)) :
            slot_id \in {i \in 0..(page.slot_count - 1) : get_record(page, i)}}

\* The process runs for the first time, the WAL is open.
Live == crashes = 0 /\ is_open_ /\ rec_pc = "idle"

\* The thread adds a page to a table.
WriterAllocate ==
    /\ Live
    /\ w_pc = NoRecord
    /\ \E t \in Tables, written \in BOOLEAN :
        /\ page_manager_.next_page_id_[t] <= MaxPageId
        /\ page_manager_' = allocate_page(page_manager_, t, written).pm
    /\ UNCHANGED <<otherVars, walVars, stats_, records_, rec_i, rec_pc, last_checkpoint_lsn_,
                   ck_pc, w_pc, crashes, applied, lsn_before, snap, snap_prev,
                   damage>>

\* The thread logs a change to a page it can get.
WriterLog ==
    /\ Live
    /\ w_pc = NoRecord
    /\ \E key \in Keys, written \in BOOLEAN :
        \E g \in {get_page(page_manager_, key, written)} :
            /\ g.page # NoPage
            /\ page_manager_' = g.pm
            /\ \E rec \in Mutations(key, g.page) :
                /\ Wal_append(rec, TRUE)
                /\ w_pc' = Logged(rec, current_lsn_)
    /\ UNCHANGED <<otherVars, stats_, records_, rec_i, rec_pc, last_checkpoint_lsn_, ck_pc,
                   crashes, applied, lsn_before, snap, snap_prev, damage>>

\* What the logged record does to its page.
MutatePage(page, record) ==
    CASE record.type = "INSERT" ->
            insert_record(page, record.payload, U16(PayloadSize(record.payload)))
      [] record.type = "UPDATE" ->
            update_record(page, record.slot_id, record.payload,
                          U16(PayloadSize(record.payload)))
      [] record.type = "DELETE" -> delete_record(page, record.slot_id)

\* The page with the change, the LSN of the record, and dirty.
MutateDone(pm, m, record) == IF ~m.ok THEN pm ELSE Changed(pm, m, record)

\* The thread puts the change it logged in the page; it gives up when the
\* page cannot be had any more or does not take the change.
WriterApply ==
    /\ crashes = 0
    /\ w_pc # NoRecord
    /\ \E written \in BOOLEAN :
        \E g \in {get_page(page_manager_, RecordKey(w_pc), written)} :
            page_manager_' =
                IF g.page = NoPage THEN g.pm
                ELSE MutateDone(g.pm, MutatePage(g.page, w_pc), w_pc)
    /\ w_pc' = NoRecord
    /\ UNCHANGED <<otherVars, walVars, stats_, records_, rec_i, rec_pc, last_checkpoint_lsn_,
                   ck_pc, crashes, applied, lsn_before, snap, snap_prev, damage>>

\* PageManager::flush_page on a dirty page; the write may fail.
FlushPage ==
    /\ Live
    /\ \E key \in DOMAIN page_manager_.buffer_pool_, written \in BOOLEAN :
        /\ page_manager_.buffer_pool_[key].dirty
        /\ page_manager_' = flush_page(page_manager_, key, written).pm
    /\ UNCHANGED <<otherVars, walVars, stats_, records_, rec_i, rec_pc, last_checkpoint_lsn_,
                   ck_pc, w_pc, crashes, applied, lsn_before, snap, snap_prev,
                   damage>>


(***************************************************************************)
(* CheckpointManager::checkpoint (src/src/storage/page_manager.cpp:688-708)*)
(* in two steps, for no lock is held from flush_all to Wal::checkpoint.    *)
(***************************************************************************)
DirtyKeys(pm) == {key \in DOMAIN pm.buffer_pool_ : pm.buffer_pool_[key].dirty}

\* page_manager_.flush_all(): the writes of the pages in okKeys succeed.
CheckpointFlush ==
    /\ Live
    /\ ck_pc = "idle"
    /\ Len(returned) < MaxAppends
    /\ \E okKeys \in SUBSET DirtyKeys(page_manager_) :
        page_manager_' = flush_all(page_manager_, okKeys).pm
    /\ ck_pc' = "flushed"
    /\ UNCHANGED <<otherVars, walVars, stats_, records_, rec_i, rec_pc, last_checkpoint_lsn_,
                   w_pc, crashes, applied, lsn_before, snap, snap_prev, damage>>

\* wal_.checkpoint(), wal_.sync(), last_checkpoint_lsn_ = lsn.
CheckpointLog ==
    /\ Live
    /\ ck_pc = "flushed"
    /\ Wal_append(CheckpointRecord, TRUE)
    /\ last_checkpoint_lsn_' = current_lsn_
    /\ ck_pc' = "idle"
    /\ UNCHANGED <<otherVars, page_manager_, stats_, records_, rec_i, rec_pc, w_pc, crashes,
                   applied, lsn_before, snap, snap_prev, damage>>

(***************************************************************************)
(* A crash: the process is gone with all it held in memory; the WAL file   *)
(* and the table files stay, and every object is constructed again.        *)
(***************************************************************************)
CrashTo(file) ==
    /\ wal_exists
    /\ crashes < MaxCrashes
    /\ wal_file' = file
    /\ is_open_' = FALSE
    /\ current_lsn_' = 1
    /\ wal_good' = TRUE
    /\ page_manager_' = NewPageManager(page_manager_.disk)
    /\ stats_' = NewStats
    /\ records_' = <<>>
    /\ rec_i' = 1
    /\ rec_pc' = "idle"
    /\ last_checkpoint_lsn_' = 0
    /\ ck_pc' = "idle"
    /\ w_pc' = NoRecord
    /\ crashes' = crashes + 1
    /\ applied' = <<>>
    /\ lsn_before' = <<>>
    /\ snap' = NoSnap
    /\ snap_prev' = NoSnap
    /\ needed' = NotCalled
    /\ recovered' = NotReturned
    /\ UNCHANGED <<rwVars, nonRecVars, wal_exists, accepted, returned, opens>>

Crash == CrashTo(wal_file) /\ UNCHANGED damage

(***************************************************************************)
(* RecoveryManager::recover (src/src/storage/page_manager.cpp:461-510),    *)
(* one step for what comes before the loop, one for every record, one for  *)
(* the return.                                                             *)
(***************************************************************************)
RecoverBegin ==
    /\ is_open_
    /\ crashes >= 1
    /\ rec_pc \in {"idle", "done"}
    /\ ~snap_prev.taken
    /\ LET checkpoint_lsn == find_last_checkpoint(read_all(wal_file, wal_good))
           start_lsn == IF checkpoint_lsn > 0 THEN checkpoint_lsn ELSE 1
       IN  /\ stats_' = [NewStats EXCEPT !.start_lsn = start_lsn]
           /\ records_' = read_from(wal_file, TRUE, start_lsn)
    /\ wal_good' = TRUE
    /\ rec_i' = 1
    /\ rec_pc' = "replay"
    /\ applied' = <<>>
    /\ lsn_before' = LsnView(page_manager_)
    /\ recovered' = NotReturned
    /\ UNCHANGED <<rwVars, nonRecVars, needed, wal_file, wal_exists, is_open_, current_lsn_,
                   accepted, returned, opens, page_manager_, last_checkpoint_lsn_, ck_pc,
                   w_pc, crashes, snap, snap_prev, damage>>

RecoverStep ==
    /\ rec_pc = "replay"
    /\ rec_i <= Len(records_)
    /\ LET record == records_[rec_i]
           counted == [stats_ EXCEPT !.records_processed = @ + 1]
       IN  IF record.type = "CHECKPOINT"
           THEN /\ stats_' = [counted EXCEPT !.records_skipped = @ + 1]
                /\ UNCHANGED <<page_manager_, applied>>
           ELSE \E written \in BOOLEAN :
                   \E r \in {apply_record(page_manager_, counted, record, written)} :
                       /\ page_manager_' = r.pm
                       /\ stats_' = [r.stats EXCEPT !.end_lsn = record.lsn]
                       /\ applied' = Append(applied, record)
    /\ rec_i' = rec_i + 1
    /\ lsn_before' = LsnView(page_manager_)
    /\ UNCHANGED <<otherVars, walVars, records_, rec_pc, last_checkpoint_lsn_, ck_pc, w_pc,
                   crashes, snap, snap_prev, damage>>

RecoverEnd ==
    /\ rec_pc = "replay"
    /\ rec_i > Len(records_)
    /\ rec_pc' = "done"
    /\ snap' = [taken |-> TRUE, pages |-> PagesView(page_manager_)]
    /\ snap_prev' = snap
    /\ recovered' = [called |-> TRUE, value |-> RecoverReturn(stats_)]
    /\ UNCHANGED <<rwVars, nonRecVars, needed, walVars, page_manager_, stats_, records_,
                   rec_i, last_checkpoint_lsn_, ck_pc, w_pc, crashes, applied, lsn_before,
                   damage>>

(***************************************************************************)
(* The storage layer: pages are changed and flushed and checkpoints taken  *)
(* while the process runs for the first time; it crashes, and recover()    *)
(* runs on what the crash left, until it has run twice since the crash.    *)
(***************************************************************************)
NextStore ==
    \/ WalOpen
    \/ WriterAllocate
    \/ WriterLog
    \/ WriterApply
    \/ FlushPage
    \/ CheckpointFlush
    \/ CheckpointLog
    \/ Crash
    \/ RecoverBegin
    \/ RecoverStep
    \/ RecoverEnd

SpecStore == Init /\ [][NextStore]_vars

\* The record types that change a page.
MutationTypes == {"INSERT", "UPDATE", "DELETE"}

\* The LSN of the last CHECKPOINT record among recs, 0 when there is none.
LastCheckpointIn(recs) ==
    LET cps == {recs[i].lsn : i \in {j \in 1..Len(recs) : recs[j].type = "CHECKPOINT"}}
    IN  IF cps = {} THEN 0 ELSE CHOOSE c \in cps : \A d \in cps : d <= c

\* The records of the WAL a recovery has to apply: those that are no
\* CHECKPOINT and come after the last CHECKPOINT, in the order of the file.
ToReplay(recs) ==
    SelectSeq(recs, LAMBDA r : r.type # "CHECKPOINT" /\ r.lsn > LastCheckpointIn(recs))

(***************************************************************************)
(* C4: running recover() a second time on the same WAL after a crash       *)
(* leaves every page as the first run left it: the same slot directory,    *)
(* the same record bytes, the same header LSN.                             *)
(***************************************************************************)
C4_RecoveryIdempotent == snap.taken /\ snap_prev.taken => snap.pages = snap_prev.pages

(***************************************************************************)
(* C8: no step of a recovery pass lowers the header LSN of a page, from    *)
(* whatever the crash left on disk.                                        *)
(***************************************************************************)
C8_PageLsnNeverDecreases ==
    rec_pc \in {"replay", "done"} =>
        \A key \in DOMAIN lsn_before \cap AllKeys(page_manager_) :
            LsnView(page_manager_)[key] >= lsn_before[key]

(***************************************************************************)
(* C9: while the process runs, for every CHECKPOINT record in the WAL,     *)
(* every page change logged before it is in the page that the table file   *)
(* holds: the page is there and its header LSN is not below the LSN of the *)
(* change.                                                                 *)
(***************************************************************************)
C9_CheckpointCoversEarlier ==
    crashes = 0 =>
        \A i, j \in 1..Len(accepted) :
            (j < i /\ accepted[i].type = "CHECKPOINT" /\ accepted[j].type \in MutationTypes)
            => /\ DiskPage(page_manager_, RecordKey(accepted[j])) # NoPage
               /\ DiskPage(page_manager_, RecordKey(accepted[j])).lsn >= accepted[j].lsn

(***************************************************************************)
(* C10: recover() hands to apply_record, in the order of their LSNs, the   *)
(* records of the WAL that are no CHECKPOINT and have an LSN above that of *)
(* the last CHECKPOINT (all of them when there is none): while it runs     *)
(* those it has handed over are the first of them, when it has returned    *)
(* they are all of them, and none has an LSN below the checkpoint.         *)
(***************************************************************************)
C10_ReplayAfterCheckpoint ==
    rec_pc \in {"replay", "done"} =>
        /\ Len(applied) <= Len(ToReplay(accepted))
        /\ applied = SubSeq(ToReplay(accepted), 1, Len(applied))
        /\ rec_pc = "done" => applied = ToReplay(accepted)
        /\ \A i, j \in 1..Len(applied) : i < j => applied[i].lsn < applied[j].lsn
        /\ \A i \in 1..Len(applied) : applied[i].lsn > LastCheckpointIn(accepted)
        /\ stats_.records_processed = rec_i - 1

\* recover() has returned on a WAL with a change, a CHECKPOINT and a change.
C10_Witness ==
    /\ rec_pc = "done"
    /\ Len(accepted) = 3
    /\ accepted[1].type = "INSERT"
    /\ accepted[2].type = "CHECKPOINT"
    /\ accepted[3].type \in MutationTypes
    /\ applied = <<accepted[3]>>
    /\ stats_.records_applied = 1

(***************************************************************************)
(* A damaged WAL. A client appends INSERT records for the slots of page 0  *)
(* in order and takes checkpoints (Wal::checkpoint); the process dies and  *)
(* the WAL file is found damaged: cut off inside a record, or with one     *)
(* byte of a record's payload altered. The WAL is opened again and         *)
(* recover() runs over it, and may run again.                              *)
(***************************************************************************)
DamagePayloads == {Bytes(<<7, 0>>)}

\* What is added bit by bit to a byte that is altered: each single bit, and
\* all of them.
ByteMasks == {1, 2, 4, 8, 16, 32, 64, 128, 255}

Inserts(recs) == SelectSeq(recs, LAMBDA r : r.type = "INSERT")

DamageAppend ==
    /\ Live
    /\ \E rec \in {WalRecord("INSERT", 1, 0, Len(Inserts(accepted)), pl) :
                        pl \in DamagePayloads} \cup {CheckpointRecord} :
        Wal_append(rec, TRUE)
    /\ UNCHANGED nonWalVars

\* The file is cut off after n bytes of its k-th record.
CutCrash ==
    /\ damage = NoDamage
    /\ \E k \in 1..Len(wal_file) :
        \E n \in 1..(wal_file[k].nbytes - 1) :
            /\ CrashTo(Append(SubSeq(wal_file, 1, k - 1), [wal_file[k] EXCEPT !.nbytes = n]))
            /\ damage' = [kind |-> "cut", k |-> k]

\* One or all bits of the i-th payload byte of the k-th record are flipped.
AlterCrash ==
    /\ damage = NoDamage
    /\ \E k \in 1..Len(wal_file) :
        \E i \in 1..(wal_file[k].nbytes - WalRecordHeaderSize) :
            \E mask \in ByteMasks :
                /\ CrashTo([wal_file EXCEPT
                               ![k].payload = PSetByte(@, i, Xor(PByte(@, i), mask))])
                /\ damage' = [kind |-> "altered", k |-> k]

NextDamage ==
    \/ WalOpen
    \/ DamageAppend
    \/ CutCrash
    \/ AlterCrash
    \/ RecoverBegin
    \/ RecoverStep
    \/ RecoverEnd

SpecDamage == Init /\ [][NextDamage]_vars

\* The records among recs with an LSN of start_lsn or more.
FromLsn(recs, start_lsn) == SelectSeq(recs, LAMBDA r : r.lsn >= start_lsn)

\* The records appended before the first damaged one.
Intact == SubSeq(accepted, 1, damage.k - 1)

(***************************************************************************)
(* C5: on a WAL file cut off inside its k-th record, or with a payload     *)
(* byte of its k-th record altered, read_from returns, for every           *)
(* start_lsn, exactly the records before the k-th with that LSN or more,   *)
(* the k-th and all after it left out; recover() works on just those       *)
(* records and ends with errors = 0.                                       *)
(***************************************************************************)
C5_DamagedWalReadsPrefix ==
    damage # NoDamage =>
        /\ is_open_ =>
              \A start_lsn \in 1..(MaxAppends + 1) :
                  read_from(wal_file, wal_good, start_lsn) = FromLsn(Intact, start_lsn)
        /\ rec_pc \in {"replay", "done"} =>
              /\ records_ = FromLsn(Intact, stats_.start_lsn)
              /\ applied = SubSeq(ToReplay(Intact), 1, Len(applied))
              /\ stats_.errors = 0
        /\ rec_pc = "done" =>
              /\ applied = ToReplay(Intact)
              /\ stats_.records_processed = Len(records_)

\* recover() has returned on a WAL of three records, the second with an
\* altered payload byte: the first record was read and applied.
C5_Witness ==
    /\ damage # NoDamage
    /\ damage.kind = "altered"
    /\ damage.k = 2
    /\ Len(accepted) = 3
    /\ rec_pc = "done"
    /\ Len(records_) = 1
    /\ stats_.records_applied = 1


(***************************************************************************)
(* size_t (src/unnamed/part_013:53, src/src/memory/query_allocator.hpp:83) *)
(* A size_t has SizeBits bits; sums of sizes wrap as unsigned sums do.     *)
(***************************************************************************)
SizeBits == 6

SizeMod == 2 ^ SizeBits

SIZE_MAX == SizeMod - 1

USize(x) == x % SizeMod

\* The sizes a caller can pass.
Sizes == 0..SIZE_MAX


(***************************************************************************)
(* QueryAllocator (src/src/memory/query_allocator.hpp:38-113,              *)
(*                 src/unnamed/part_014:12-25)                             *)
(***************************************************************************)
\* QueryAllocator(memory_limit, arena): bytes_used_{0}
NewQueryAllocator(memory_limit) == [memory_limit_ |-> memory_limit, bytes_used_ |-> 0]

\* QueryAllocator::would_exceed(size)
would_exceed(qa, size) == USize(qa.bytes_used_ + size) > qa.memory_limit_

\* QueryAllocator::bytes_used()
bytes_used(qa) == qa.bytes_used_


(***************************************************************************)
(* ExecutionContext (src/src/executor/context.hpp:56-160,                  *)
(*                   src/unnamed/part_012:12-136)                          *)
(* steady_clock is read by check_time; late_at is the number of the        *)
(* reading from which the time elapsed since start() is above max_time     *)
(* (0: never), time_checks the readings made. thrown: a std::runtime_error *)
(* is on its way to the catch of Executor::execute.                        *)
(***************************************************************************)
\* ExecutionStats{}
NewExecutionStats ==
    [instructions_executed |-> 0, rows_scanned |-> 0, rows_returned |-> 0,
     memory_used |-> 0]

\* ExecutionContext(budget, allocator)
NewExecutionContext(budget, late_at) ==
    [budget_ |-> budget,
     allocator_ |-> NewQueryAllocator(budget.max_memory_bytes),
     stats_ |-> NewExecutionStats,
     started_ |-> FALSE,
     aborted_ |-> FALSE,
     violation_ |-> "NONE",
     late_at |-> late_at,
     time_checks |-> 0,
     thrown |-> FALSE]

\* ExecutionContext::start
start(c) == [c EXCEPT !.started_ = TRUE, !.time_checks = 0]

\* ExecutionContext::abort
abort(c) == [c EXCEPT !.aborted_ = TRUE, !.violation_ = "ABORTED"]

\* ExecutionContext::record_instructions(count)
record_instructions(c, count) == [c EXCEPT !.stats_.instructions_executed = @ + count]

\* ExecutionContext::record_row_scanned
record_row_scanned(c) == [c EXCEPT !.stats_.rows_scanned = @ + 1]

\* ExecutionContext::record_row_returned
record_row_returned(c) == [c EXCEPT !.stats_.rows_returned = @ + 1]

\* violation_ = tag; throw std::runtime_error(violation_message())
Violated(c, tag) == [c EXCEPT !.violation_ = tag, !.thrown = TRUE]

\* The clock read by check_time: is the elapsed time above max_time?
Late(c) == c.late_at # 0 /\ c.time_checks >= c.late_at

\* check_time once the clock is read.
TimeChecked(c) == IF Late(c) THEN Violated(c, "TIMEOUT") ELSE c

\* ExecutionContext::check_time
check_time(c) ==
    IF ~c.started_ THEN c ELSE TimeChecked([c EXCEPT !.time_checks = @ + 1])

\* A check_instructions that lets the cap itself pass.
CheckInstructionsAbove(c) ==
    IF c.stats_.instructions_executed > c.budget_.max_instructions
    THEN Violated(c, "INSTRUCTIONS_EXCEEDED") ELSE c

\* ExecutionContext::check_instructions
check_instructions(c) ==
    IF c.stats_.instructions_executed >= c.budget_.max_instructions
    THEN Violated(c, "INSTRUCTIONS_EXCEEDED") ELSE c

\* A check_rows that throws without a tag.
CheckRowsUntagged(c) ==
    IF c.stats_.rows_returned >= c.budget_.max_result_rows
    THEN [c EXCEPT !.thrown = TRUE] ELSE c

\* ExecutionContext::check_rows
check_rows(c) ==
    IF c.stats_.rows_returned >= c.budget_.max_result_rows
    THEN Violated(c, "ROWS_EXCEEDED") ELSE c

\* The memory check at the end of check_budget.
CheckMemory(c) ==
    IF would_exceed(c.allocator_, 0)
    THEN Violated([c EXCEPT !.stats_.memory_used = bytes_used(c.allocator_)],
                  "MEMORY_EXCEEDED")
    ELSE [c EXCEPT !.stats_.memory_used = bytes_used(c.allocator_)]

\* f(c), unless an exception is on its way already.
Unless(c, next) == IF c.thrown THEN c ELSE next

\* check_budget from check_instructions on.
AfterTime(c) == Unless(c, check_instructions(c))

\* check_budget from check_rows on.
AfterInstructions(c) == Unless(c, check_rows(c))

\* check_budget from the memory check on.
AfterRows(c) == Unless(c, CheckMemory(c))

\* ExecutionContext::check_budget
check_budget(c) ==
    IF c.aborted_ THEN Violated(c, "ABORTED")
    ELSE AfterRows(AfterInstructions(AfterTime(check_time(c))))

\* ExecutionContext::finalize
finalize(c) == [c EXCEPT !.stats_.memory_used = bytes_used(c.allocator_)]


(***************************************************************************)
(* Catalog (src/src/planner/catalog.hpp:33-125)                            *)
(* tables_by_name_ as a function from the names to NoTable or a TableInfo. *)
(***************************************************************************)
TableNames == {"t"}

Columns == <<"id", "name">>

NoTable == [id |-> 0]

\* Catalog{}: no table, next_table_id_{1}
NewCatalog == [tables |-> [n \in TableNames |-> NoTable], next_table_id_ |-> 1]

\* Catalog::table_exists(name)
table_exists(cat, name) == cat.tables[name] # NoTable

\* Catalog::get_table(name), NoTable for nullptr
get_table(cat, name) == cat.tables[name]

\* Catalog::get_table_by_id(id), NoTable for nullptr
get_table_by_id(cat, id) ==
    IF \E n \in TableNames : cat.tables[n] # NoTable /\ cat.tables[n].id = id
    THEN cat.tables[CHOOSE n \in TableNames : cat.tables[n] # NoTable /\ cat.tables[n].id = id]
    ELSE NoTable

\* Catalog::create_table(name, columns): [id, cat], id = 0 on failure
Catalog_create_table(cat, name, columns) ==
    IF table_exists(cat, name) THEN [id |-> 0, cat |-> cat]
    ELSE [id |-> cat.next_table_id_,
          cat |-> [cat EXCEPT !.tables[name] = [id |-> cat.next_table_id_, name |-> name,
                                                columns |-> columns],
                              !.next_table_id_ = @ + 1]]

\* Catalog::drop_table(name)
Catalog_drop_table(cat, name) == [cat EXCEPT !.tables[name] = NoTable]


(***************************************************************************)
(* Planner (src/src/planner/planner.cpp:15-185, src/src/planner/plan.cpp)  *)
(* A statement is [type, table_name, ...] as the parser leaves it; a plan  *)
(* is the PlanNode tree, NoPlan for std::nullopt.                          *)
(***************************************************************************)
NoPlan == [type |-> "NONE"]

\* plan_select from the WHERE clause on, scan being the TABLE_SCAN node.
SelectOver(scan, stmt) ==
    LET filtered == IF stmt.where_clause THEN [type |-> "FILTER", child |-> scan] ELSE scan
        grouped == IF stmt.aggregates THEN [type |-> "AGGREGATE", child |-> filtered]
                   ELSE filtered
        sorted == IF Len(stmt.order_by) > 0
                  THEN [type |-> "SORT", child |-> grouped, ascending |-> stmt.order_by]
                  ELSE grouped
    IN  IF stmt.limit >= 0
        THEN [type |-> "LIMIT", child |-> sorted, limit |-> stmt.limit,
              offset |-> stmt.offset]
        ELSE sorted

\* Planner::plan_select
plan_select(cat, stmt) ==
    IF get_table(cat, stmt.table_name) = NoTable THEN NoPlan
    ELSE SelectOver([type |-> "TABLE_SCAN", table_id |-> get_table(cat, stmt.table_name).id,
                     table_name |-> stmt.table_name], stmt)

\* Planner::plan_insert: the value rows are not copied into the node.
plan_insert(cat, stmt) ==
    IF get_table(cat, stmt.table_name) = NoTable THEN NoPlan
    ELSE IF \E i \in 1..Len(stmt.values) :
                Len(stmt.values[i]) # Len(get_table(cat, stmt.table_name).columns)
    THEN NoPlan
    ELSE [type |-> "INSERT", table_id |-> get_table(cat, stmt.table_name).id,
          table_name |-> stmt.table_name, values |-> <<>>]

\* Planner::plan_create_table
plan_create_table(cat, stmt) ==
    IF ~stmt.if_not_exists /\ table_exists(cat, stmt.table_name) THEN NoPlan
    ELSE [type |-> "CREATE_TABLE", table_name |-> stmt.table_name,
          columns |-> stmt.columns, if_not_exists |-> stmt.if_not_exists]

\* Planner::plan_drop_table
plan_drop_table(cat, stmt) ==
    IF ~stmt.if_exists /\ ~table_exists(cat, stmt.table_name) THEN NoPlan
    ELSE [type |-> "DROP_TABLE", table_name |-> stmt.table_name,
          if_exists |-> stmt.if_exists]

\* Planner::plan
Planner_plan(cat, stmt) ==
    CASE stmt.type = "SELECT" -> plan_select(cat, stmt)
      [] stmt.type = "INSERT" -> plan_insert(cat, stmt)
      [] stmt.type = "CREATE_TABLE" -> plan_create_table(cat, stmt)
      [] stmt.type = "DROP_TABLE" -> plan_drop_table(cat, stmt)


(***************************************************************************)
(* Operators (src/unnamed/part_011:42-156, src/src/executor/executor.cpp)  *)
(* An operator is a record with its members and its child; page_ says      *)
(* whether the scan's Page* is non-null, the page being the one of         *)
(* (table_id_, current_page_) in the buffer pool. next gives               *)
(* [ok, row, op, ctx, pm]; `written` is the outcome of the page write an   *)
(* eviction inside get_page makes.                                         *)
(***************************************************************************)
NoOperator == [type |-> "NONE"]

RECURSIVE build_operator(_, _)
\* Executor::build_operator, NoOperator for nullptr
build_operator(cat, plan) ==
    CASE plan.type = "TABLE_SCAN" ->
             [type |-> "TABLE_SCAN", table_id_ |-> plan.table_id,
              schema_ |-> get_table_by_id(cat, plan.table_id),
              current_page_ |-> 0, current_slot_ |-> 0, page_ |-> FALSE]
      [] plan.type = "FILTER" ->
             [type |-> "FILTER", child_ |-> build_operator(cat, plan.child)]
      [] plan.type = "LIMIT" ->
             [type |-> "LIMIT", child_ |-> build_operator(cat, plan.child),
              limit_ |-> plan.limit, offset_ |-> plan.offset,
              skipped_ |-> 0, returned_ |-> 0]
      [] plan.type = "SORT" ->
             [type |-> "SORT", child_ |-> build_operator(cat, plan.child),
              buffer_ |-> <<>>, current_row_ |-> 0, materialized_ |-> FALSE]
      [] OTHER -> NoOperator

RECURSIVE column_names(_)
\* Operator::column_names
column_names(op) ==
    IF op.type = "TABLE_SCAN"
    THEN IF op.schema_ = NoTable THEN <<>> ELSE op.schema_.columns
    ELSE column_names(op.child_)

\* The row TableScanOperator::next makes of a record: a null per column.
NullRow(schema) ==
    IF schema = NoTable THEN <<>> ELSE [i \in 1..Len(schema.columns) |-> "NULL"]

Opened(op, c, pm) == [op |-> op, ctx |-> c, pm |-> pm]

Pulled(ok, row, op, c, pm) == [ok |-> ok, row |-> row, op |-> op, ctx |-> c, pm |-> pm]

\* TableScanOperator::open, get_page having returned g.
ScanOpened(op, c, g) ==
    Opened([op EXCEPT !.current_page_ = 0, !.current_slot_ = 0,
                      !.page_ = g.page # NoPage],
           record_instructions(c, 10), g.pm)

\* An operator with the child an open or a next of the child left.
WithChild(op, r) == [op EXCEPT !.child_ = r.op]

RECURSIVE Operator_open(_, _, _, _)
\* Operator::open: a scan gets its first page, the others open their child.
Operator_open(op, c, pm, written) ==
    IF op.type = "TABLE_SCAN"
    THEN ScanOpened(op, c, get_page(pm, PageKey(op.table_id_, 0), written))
    ELSE Opened(WithChild(op, Operator_open(op.child_, c, pm, written)),
                Operator_open(op.child_, c, pm, written).ctx,
                Operator_open(op.child_, c, pm, written).pm)

\* *page_ of a scan.
ScanPage(op, pm) == pm.buffer_pool_[PageKey(op.table_id_, op.current_page_)].page

RECURSIVE ScanLoop(_, _, _, _)
RECURSIVE ScanMoved(_, _, _, _)
\* TableScanOperator::next after its first line: the next live record of the
\* table, page after page until get_page returns nullptr.
ScanLoop(op, c, pm, written) ==
    IF ~op.page_ THEN Pulled(FALSE, <<>>, op, c, pm)
    ELSE IF op.current_slot_ < ScanPage(op, pm).slot_count
    THEN IF get_record(ScanPage(op, pm), op.current_slot_)
         THEN Pulled(TRUE, NullRow(op.schema_), [op EXCEPT !.current_slot_ = @ + 1],
                     record_instructions(record_row_scanned(c), 5), pm)
         ELSE ScanLoop([op EXCEPT !.current_slot_ = @ + 1], c, pm, written)
    ELSE ScanMoved(op, c,
                   get_page(pm, PageKey(op.table_id_, op.current_page_ + 1), written),
                   written)

\* The move of a scan to its next page, get_page having returned g.
ScanMoved(op, c, g, written) ==
    ScanLoop([op EXCEPT !.current_page_ = @ + 1, !.current_slot_ = 0,
                        !.page_ = g.page # NoPage],
             record_instructions(c, 10), g.pm, written)

\* FilterOperator::next, the child having returned p: the predicate is not
\* evaluated and every row passes.
FilterPulled(op, p) ==
    Pulled(p.ok, p.row, WithChild(op, p),
           IF p.ok THEN record_instructions(p.ctx, 5) ELSE p.ctx, p.pm)

\* A mutant of LimitPulled: a row is returned and returned_ is not counted.
LimitPulledUncounted(op, p) ==
    IF p.ok
    THEN Pulled(TRUE, p.row, WithChild(op, p), record_row_returned(p.ctx), p.pm)
    ELSE Pulled(FALSE, p.row, WithChild(op, p), p.ctx, p.pm)

\* The end of LimitOperator::next, the child having returned p.
LimitPulled(op, p) ==
    IF p.ok
    THEN Pulled(TRUE, p.row, [WithChild(op, p) EXCEPT !.returned_ = @ + 1],
                record_row_returned(p.ctx), p.pm)
    ELSE Pulled(FALSE, p.row, WithChild(op, p), p.ctx, p.pm)

\* The end of SortOperator::next: the next row of buffer_. The rows are rows
\* of nulls, which std::sort leaves as they are.
SortEmit(s) ==
    IF ~s.ctx.thrown /\ s.op.current_row_ < Len(s.op.buffer_)
    THEN Pulled(TRUE, s.op.buffer_[s.op.current_row_ + 1],
                [s.op EXCEPT !.current_row_ = @ + 1], s.ctx, s.pm)
    ELSE Pulled(FALSE, <<>>, s.op, s.ctx, s.pm)

\* An Operator that produces the rows it was given, one per next.
RowsOperator(rows) == [type |-> "ROWS", rows_ |-> rows, at_ |-> 0]

\* Its next.
RowsNext(op, c, pm) ==
    IF op.at_ < Len(op.rows_)
    THEN Pulled(TRUE, op.rows_[op.at_ + 1], [op EXCEPT !.at_ = @ + 1], c, pm)
    ELSE Pulled(FALSE, <<>>, op, c, pm)

RECURSIVE Operator_next(_, _, _, _)
RECURSIVE LimitSkip(_, _, _, _)
RECURSIVE LimitSkipped(_, _, _)
RECURSIVE SortFill(_, _, _, _)
RECURSIVE SortFilled(_, _, _)
\* Operator::next
Operator_next(op, c, pm, written) ==
    CASE op.type = "TABLE_SCAN" -> ScanLoop(op, record_instructions(c, 1), pm, written)
      [] op.type = "FILTER" -> FilterPulled(op, Operator_next(op.child_, c, pm, written))
      [] op.type = "LIMIT" -> LimitSkip(op, c, pm, written)
      [] op.type = "ROWS" -> RowsNext(op, c, pm)
      [] op.type = "SORT" ->
             IF op.materialized_ THEN SortEmit(Opened(op, c, pm))
             ELSE SortEmit(SortFill(op, c, pm, written))

\* LimitOperator::next: offset_ rows are skipped, then rows are returned and
\* counted while returned_ is below limit_.
LimitSkip(op, c, pm, written) ==
    IF op.skipped_ < op.offset_
    THEN LimitSkipped(op, Operator_next(op.child_, c, pm, written), written)
    ELSE IF op.limit_ >= 0 /\ op.returned_ >= op.limit_
    THEN Pulled(FALSE, <<>>, op, c, pm)
    ELSE LimitPulled(op, Operator_next(op.child_, c, pm, written))

\* A round of the skipping loop, the child having returned p.
LimitSkipped(op, p, written) ==
    IF ~p.ok THEN Pulled(FALSE, p.row, WithChild(op, p), p.ctx, p.pm)
    ELSE LimitSkip([WithChild(op, p) EXCEPT !.skipped_ = @ + 1],
                   record_instructions(p.ctx, 1), p.pm, written)

\* The materialising loop of SortOperator::next.
SortFill(op, c, pm, written) ==
    SortFilled(op, Operator_next(op.child_, c, pm, written), written)

\* A round of the materialising loop, the child having returned p: the row
\* is buffered and the budget checked, or the buffer is sorted.
SortFilled(op, p, written) ==
    IF p.ctx.thrown THEN Opened(WithChild(op, p), p.ctx, p.pm)
    ELSE IF ~p.ok
    THEN Opened([WithChild(op, p) EXCEPT !.materialized_ = TRUE],
                record_instructions(p.ctx, Len(op.buffer_) * 10), p.pm)
    ELSE IF check_budget(record_instructions(p.ctx, 2)).thrown
    THEN Opened([WithChild(op, p) EXCEPT !.buffer_ = Append(@, p.row)],
                check_budget(record_instructions(p.ctx, 2)), p.pm)
    ELSE SortFill([WithChild(op, p) EXCEPT !.buffer_ = Append(@, p.row)],
                  check_budget(record_instructions(p.ctx, 2)), p.pm, written)


(***************************************************************************)
(* Executor (src/src/executor/executor.cpp:227-440)                        *)
(* execute and its parts give [result, ctx, pm, cat].                      *)
(***************************************************************************)
\* ExecutionResult{}
NewResult ==
    [success |-> FALSE, error |-> "", column_names |-> <<>>, rows |-> <<>>,
     rows_affected |-> 0]

\* No query has run.
NoResult == [success |-> FALSE]

Ran(res, c, pm, cat) == [result |-> res, ctx |-> c, pm |-> pm, cat |-> cat]

\* ExecutionContext::violation_message, by its tag.
violation_message(c) == c.violation_

\* The catch clause of execute: the result is the one execute began with.
Caught(c, pm, cat) == Ran([NewResult EXCEPT !.error = violation_message(c)], c, pm, cat)

RECURSIVE SelectLoop(_, _, _, _, _, _)
RECURSIVE SelectPulled(_, _, _, _, _)
\* The loop of execute_select: each row next returns is added to the result
\* and the budget is checked.
SelectLoop(op, c, pm, res, cat, written) ==
    SelectPulled(Operator_next(op, c, pm, written), res, cat, written,
                 check_budget(Operator_next(op, c, pm, written).ctx))

\* A round of that loop, next having returned p and check_budget checked.
SelectPulled(p, res, cat, written, checked) ==
    IF p.ctx.thrown THEN Caught(p.ctx, p.pm, cat)
    ELSE IF ~p.ok THEN Ran([res EXCEPT !.success = TRUE], p.ctx, p.pm, cat)
    ELSE IF checked.thrown THEN Caught(checked, p.pm, cat)
    ELSE SelectLoop(p.op, checked, p.pm, [res EXCEPT !.rows = Append(@, p.row)], cat,
                    written)

\* execute_select once the operator tree is built and opened.
SelectFrom(o, cat, written) ==
    SelectLoop(o.op, o.ctx, o.pm, [NewResult EXCEPT !.column_names = column_names(o.op)],
               cat, written)

\* Executor::execute_select
execute_select(cat, plan, c, pm, written) ==
    IF build_operator(cat, plan) = NoOperator
    THEN Ran([NewResult EXCEPT !.error = "Failed to build operator tree"], c, pm, cat)
    ELSE SelectFrom(Operator_open(build_operator(cat, plan), c, pm, written), cat, written)

\* Executor::execute_insert: the rows are counted.
execute_insert(cat, node, c, pm) ==
    IF get_table(cat, node.table_name) = NoTable
    THEN Ran([NewResult EXCEPT !.error = "Table not found"], c, pm, cat)
    ELSE Ran([NewResult EXCEPT !.rows_affected = Len(node.values), !.success = TRUE],
             record_instructions(c, Len(node.values) * 20), pm, cat)

\* execute_create_table, Catalog::create_table having returned made.
TableCreated(made, cat, node, c, pm) ==
    IF made.id = 0 /\ ~node.if_not_exists
    THEN Ran([NewResult EXCEPT !.error = "Failed to create table"], c, pm, made.cat)
    ELSE Ran([NewResult EXCEPT !.success = TRUE], record_instructions(c, 100), pm,
             made.cat)

\* Executor::execute_create_table
execute_create_table(cat, node, c, pm) ==
    IF ~node.if_not_exists /\ table_exists(cat, node.table_name)
    THEN Ran([NewResult EXCEPT !.error = "Table already exists"], c, pm, cat)
    ELSE TableCreated(Catalog_create_table(cat, node.table_name, node.columns),
                      cat, node, c, pm)

\* Executor::execute_drop_table
execute_drop_table(cat, node, c, pm) ==
    IF ~table_exists(cat, node.table_name) /\ ~node.if_exists
    THEN Ran([NewResult EXCEPT !.error = "Table not found"], c, pm, cat)
    ELSE Ran([NewResult EXCEPT !.success = TRUE], record_instructions(c, 50), pm,
             IF table_exists(cat, node.table_name)
             THEN Catalog_drop_table(cat, node.table_name) ELSE cat)

\* The switch of execute.
Dispatch(cat, plan, c, pm, written) ==
    CASE plan.type \in {"TABLE_SCAN", "FILTER", "PROJECT", "SORT", "LIMIT", "AGGREGATE"} ->
             execute_select(cat, plan, c, pm, written)
      [] plan.type = "INSERT" -> execute_insert(cat, plan, c, pm)
      [] plan.type = "CREATE_TABLE" -> execute_create_table(cat, plan, c, pm)
      [] plan.type = "DROP_TABLE" -> execute_drop_table(cat, plan, c, pm)
      [] OTHER -> Ran([NewResult EXCEPT !.error = "Unsupported plan type"], c, pm, cat)

\* The end of execute: ctx.finalize(); result.stats = ctx.stats()
Finalized(r) ==
    [result |-> [success |-> r.result.success, error |-> r.result.error,
                 column_names |-> r.result.column_names, rows |-> r.result.rows,
                 rows_affected |-> r.result.rows_affected,
                 stats |-> finalize(r.ctx).stats_],
     ctx |-> finalize(r.ctx), pm |-> r.pm, cat |-> r.cat]

\* Executor::execute(plan, ctx)
Executor_execute(cat, plan, c, pm, written) ==
    Finalized(Dispatch(cat, plan, start(c), pm, written))


(***************************************************************************)
(* Queries (src/unnamed/part_001:17-76, src/src/executor/executor.cpp:231) *)
(* A query is handled as QueryHandler::handle does it: planned, given a    *)
(* fresh context and executed. A plan can also be handed to execute as it  *)
(* is, with a context its owner may have aborted. The table's page gets    *)
(* records the way RecoveryManager::apply_insert puts them there.          *)
(***************************************************************************)
\* The most records in a page, and the most rows INSERT statements bring.
MaxRows == 2

NoStmt == [type |-> "NONE"]

ValueRows == {<<<<"1", "a">>, <<"2", "b">>>>}

\* SELECT * FROM t with the clauses given.
Select(where, aggregates, order_by, limit, offset) ==
    [type |-> "SELECT", table_name |-> "t", where_clause |-> where,
     aggregates |-> aggregates, order_by |-> order_by, limit |-> limit, offset |-> offset]

Statements ==
    {[type |-> "CREATE_TABLE", table_name |-> "t", columns |-> Columns,
      if_not_exists |-> b] : b \in BOOLEAN}
    \cup {[type |-> "DROP_TABLE", table_name |-> "t", if_exists |-> b] : b \in BOOLEAN}
    \cup {[type |-> "INSERT", table_name |-> "t", column_names |-> <<>>, values |-> v] :
              v \in ValueRows}
    \cup {Select(FALSE, FALSE, <<>>, -1, 0), Select(TRUE, FALSE, <<>>, -1, 0),
          Select(FALSE, FALSE, <<TRUE>>, -1, 0), Select(FALSE, FALSE, <<>>, 1, 0),
          Select(FALSE, FALSE, <<>>, 1, 1), Select(FALSE, FALSE, <<TRUE>>, 1, 0),
          Select(FALSE, TRUE, <<>>, -1, 0)}

\* Plans made without the planner.
DirectPlans ==
    {[type |-> "INSERT", table_id |-> 1, table_name |-> "t", values |-> v] : v \in ValueRows}
    \cup {[type |-> "TABLE_SCAN", table_id |-> 1, table_name |-> "t"]}

\* A budget nothing here exceeds.
WideBudget == [max_memory_bytes |-> 32, max_instructions |-> 1000, max_result_rows |-> 100]

Budgets ==
    {WideBudget, [WideBudget EXCEPT !.max_instructions = 20],
     [WideBudget EXCEPT !.max_result_rows = 1]}

\* What a query runs under: its budget, the clock reading from which it is
\* late (0: never), and whether the page write of an eviction succeeds.
Runs ==
    {[budget |-> b, late |-> 0, written |-> TRUE] : b \in Budgets}
    \cup {[budget |-> WideBudget, late |-> 1, written |-> TRUE],
          [budget |-> WideBudget, late |-> 0, written |-> FALSE]}

\* The rows an INSERT was asked to insert.
Asked(stmt, plan) == IF stmt = NoStmt THEN plan.values ELSE stmt.values

\* The state after execute returned r for plan, planned from stmt.
Executed(r, stmt, plan) ==
    /\ catalog_' = r.cat
    /\ ctx' = r.ctx
    /\ result' = r.result
    /\ page_manager_' = r.pm
    /\ plan_' = [stmt |-> stmt, plan |-> plan]
    /\ before' = [wal |-> wal_file, pm |-> page_manager_]
    /\ history' = IF plan.type = "INSERT" /\ r.result.success
                  THEN [history EXCEPT !.inserted = @ \o Asked(stmt, plan)]
                  ELSE IF plan.type = "DROP_TABLE" /\ r.result.success
                  THEN [history EXCEPT !.inserted = <<>>]
                  ELSE history
    /\ UNCHANGED nonExecVars

\* The bounds on a query: table ids stay in Tables, and the rows in MaxRows.
Bounded(stmt, plan) ==
    /\ plan # NoPlan
    /\ plan.type = "CREATE_TABLE" =>
           table_exists(catalog_, plan.table_name) \/ catalog_.next_table_id_ \in Tables
    /\ plan.type = "INSERT" => Len(history.inserted) + Len(Asked(stmt, plan)) <= MaxRows

\* QueryHandler::handle
HandleQuery ==
    \E stmt \in Statements, run \in Runs :
        /\ Bounded(stmt, Planner_plan(catalog_, stmt))
        /\ stmt.type # "SELECT" => run.budget = WideBudget /\ run.late = 0 /\ run.written
        /\ Executed(Executor_execute(catalog_, Planner_plan(catalog_, stmt),
                                     NewExecutionContext(run.budget, run.late),
                                     page_manager_, run.written),
                    stmt, Planner_plan(catalog_, stmt))

\* Executor::execute on a plan and a context of the caller's.
ExecutePlan ==
    \E plan \in DirectPlans, aborted \in BOOLEAN :
        /\ Bounded(NoStmt, plan)
        /\ Executed(Executor_execute(catalog_, plan,
                                     IF aborted
                                     THEN abort(NewExecutionContext(WideBudget, 0))
                                     ELSE NewExecutionContext(WideBudget, 0),
                                     page_manager_, TRUE),
                    NoStmt, plan)

\* The INSERT record that redo applies next.
RedoRecord ==
    [lsn |-> history.redone + 1, type |-> "INSERT", table_id |-> 1, page_id |-> 0,
     slot_id |-> history.redone, payload |-> Bytes(<<1>>)]

\* A record reaches the table's page through RecoveryManager::apply_insert.
RedoInsert ==
    /\ history.redone < MaxRows
    /\ \E r \in {apply_insert(page_manager_, NewStats, RedoRecord, TRUE)} :
           /\ r.ok
           /\ page_manager_' = r.pm
    /\ history' = [history EXCEPT !.redone = @ + 1]
    /\ UNCHANGED <<catalog_, ctx, result, plan_, before, nonExecVars>>

NextExec == HandleQuery \/ ExecutePlan \/ RedoInsert

SpecExec == Init /\ [][NextExec]_vars

\* The INSERT records in a WAL file.
WalInserts(file) == Cardinality({i \in 1..Len(file) : file[i].type = "INSERT"})

\* C11: when execute has run an INSERT plan with n value rows, the WAL holds
\* n INSERT records more than before, one per row, and every row is in a
\* page whose LSN is that of its record.
C11_InsertAppendsWalRecords ==
    (plan_.plan.type = "INSERT" /\ result.success)
        => /\ WalInserts(wal_file) = WalInserts(before.wal) + Len(plan_.plan.values)
           /\ Len(plan_.plan.values) > 0 => page_manager_ # before.pm

\* A SELECT * with no clause.
SelectStar(stmt) ==
    /\ stmt.type = "SELECT"
    /\ ~stmt.where_clause /\ ~stmt.aggregates
    /\ stmt.order_by = <<>> /\ stmt.limit = -1

C16_ResultRowsBounded ==
    result # NoResult => Len(result.rows) <= ctx.budget_.max_result_rows

\* The tags of the budgets that are exceeded in context c.
Exceeded(c) ==
    {tag \in {"ABORTED", "TIMEOUT", "INSTRUCTIONS_EXCEEDED", "ROWS_EXCEEDED",
              "MEMORY_EXCEEDED"} :
        \/ tag = "ABORTED" /\ c.aborted_
        \/ tag = "TIMEOUT" /\ Late(c)
        \/ tag = "INSTRUCTIONS_EXCEEDED"
               /\ c.stats_.instructions_executed >= c.budget_.max_instructions
        \/ tag = "ROWS_EXCEEDED" /\ c.stats_.rows_returned >= c.budget_.max_result_rows
        \/ tag = "MEMORY_EXCEEDED" /\ would_exceed(c.allocator_, 0)}

MaxPoolPages == 2

MaxPoolPageId == 1

MaxLru == 3

\* PageManager::create_table_file(table_id): [ok, pm]; `made` says whether
\* the file could be opened for writing, which empties it.
create_table_file(pm, table_id, made) ==
    IF ~made THEN [ok |-> FALSE, pm |-> pm]
    ELSE [ok |-> TRUE,
          pm |-> [pm EXCEPT !.disk[table_id] = [exists |-> TRUE, pages |-> <<>>],
                            !.next_page_id_[table_id] = 0]]

RECURSIVE RemoveKeys(_, _)
\* The loop of delete_table_file over to_remove: the key leaves lru_list_
\* where lru_map_ points, lru_map_ and buffer_pool_.
RemoveKeys(pm, keys) ==
    IF keys = {} THEN pm
    ELSE LET key == CHOOSE k \in keys : TRUE
         IN  RemoveKeys([pm EXCEPT !.lru_list_ =
                                       IF key \in pm.lru_map_
                                       THEN SeqErase(@, FirstIndex(@, key)) ELSE @,
                                   !.lru_map_ = @ \ {key},
                                   !.buffer_pool_ = MapErase(@, key)],
                        keys \ {key})

\* PageManager::delete_table_file(table_id): [ok, pm]; `removed` says
\* whether std::filesystem::remove succeeded.
delete_table_file(pm, table_id, removed) ==
    [ok |-> removed,
     pm |-> [RemoveKeys(pm, {k \in DOMAIN pm.buffer_pool_ : k[1] = table_id})
                EXCEPT !.disk[table_id] = IF removed THEN NoFile ELSE @,
                       !.next_page_id_[table_id] = 0]]

\* PageManager::page_count()
page_count(pm) == Cardinality(DOMAIN pm.buffer_pool_)

\* The keys of the pages a caller asks for.
PoolKeys == {PageKey(t, p) : t \in Tables, p \in 0..MaxPoolPageId}

\* What the operations on the pool leave alone.
nonPoolVars == <<rwVars, walVars, storeRest, moreVars>>

PoolGetPage ==
    \E key \in PoolKeys, written \in BOOLEAN :
        /\ Len(page_manager_.lru_list_) < MaxLru
        /\ page_manager_' = get_page(page_manager_, key, written).pm
        /\ UNCHANGED nonPoolVars

PoolAllocatePage ==
    \E t \in Tables, written \in BOOLEAN :
        /\ page_manager_.next_page_id_[t] <= MaxPoolPageId
        /\ Len(page_manager_.lru_list_) < MaxLru
        /\ page_manager_' = allocate_page(page_manager_, t, written).pm
        /\ UNCHANGED nonPoolVars

PoolMarkDirty ==
    \E key \in PoolKeys :
        /\ page_manager_' = mark_dirty(page_manager_, key)
        /\ UNCHANGED nonPoolVars

PoolFlushPage ==
    \E key \in PoolKeys, written \in BOOLEAN :
        /\ page_manager_' = flush_page(page_manager_, key, written).pm
        /\ UNCHANGED nonPoolVars

PoolFlushAll ==
    \E okKeys \in SUBSET DOMAIN page_manager_.buffer_pool_ :
        /\ page_manager_' = flush_all(page_manager_, okKeys).pm
        /\ UNCHANGED nonPoolVars

PoolCreateTableFile ==
    \E t \in Tables, made \in BOOLEAN :
        /\ page_manager_' = create_table_file(page_manager_, t, made).pm
        /\ UNCHANGED nonPoolVars

PoolDeleteTableFile ==
    \E t \in Tables, removed \in BOOLEAN :
        /\ page_manager_' = delete_table_file(page_manager_, t, removed).pm
        /\ UNCHANGED nonPoolVars

\* A PageManager of one to MaxPoolPages pages on an empty data directory.
InitPool ==
    /\ InitRW
    /\ InitWal
    /\ \E n \in 1..MaxPoolPages :
           page_manager_ = [NewPageManager([t \in Tables |-> NoFile])
                               EXCEPT !.max_pages_ = n]
    /\ InitStoreRest
    /\ InitMore

NextPool ==
    \/ PoolGetPage
    \/ PoolAllocatePage
    \/ PoolMarkDirty
    \/ PoolFlushPage
    \/ PoolFlushAll
    \/ PoolCreateTableFile
    \/ PoolDeleteTableFile

SpecPool == InitPool /\ [][NextPool]_vars

\* C13: whatever get_page, allocate_page, mark_dirty, flush_page, flush_all,
\* create_table_file and delete_table_file calls were made, failed ones
\* among them, the buffer pool holds at most max_pages pages.
C13_PoolBounded == page_count(page_manager_) <= page_manager_.max_pages_

\* The pool is full and more pages were allocated than it holds, so that
\* pages have been evicted.
C13_Witness ==
    /\ page_count(page_manager_) = page_manager_.max_pages_
    /\ \E t \in Tables : page_manager_.next_page_id_[t] > page_manager_.max_pages_


(***************************************************************************)
(* A page under its caller (src/src/storage/page_manager.cpp:324-439)      *)
(* insert_record, update_record and delete_record in any order, with       *)
(* records of every kind of length a uint16_t holds. A memcpy that runs    *)
(* past the PAGE_SIZE bytes of data_ has undefined behaviour: the bytes    *)
(* past the end are then there when read back, or they are not.            *)
(***************************************************************************)
\* The most slots of the page.
MaxSlots == 2

\* Records of 0, 1 and 2 bytes, and one as long as a uint16_t allows.
PageData ==
    {Bytes(<<>>), Bytes(<<1>>), Bytes(<<2, 3>>), Payload(<<9>>, DeletedOffset - 1)}

\* The bytes get_record gives for a live slot.
record_bytes(pg, slot_index) ==
    PTake(pg.slots[slot_index + 1].data, pg.slots[slot_index + 1].length)

\* A slot of which bytes lie past the end of data_.
PastEnd(slot) == ~is_deleted(slot) /\ slot.offset + PayloadSize(slot.data) > PAGE_SIZE

\* The slot with the bytes past the end of data_ read as zero.
PastEndLost(slot) ==
    IF slot.offset >= PAGE_SIZE THEN [slot EXCEPT !.data = Payload(<<>>, PayloadSize(@))]
    ELSE [slot EXCEPT !.data = PConcat(PTake(@, PAGE_SIZE - slot.offset),
                                       Payload(<<>>, PayloadSize(@) - (PAGE_SIZE - slot.offset)))]

\* The pages an operation can leave that made pg of the page: pg itself,
\* and, when bytes were written past the end of data_, pg without them.
Outcomes(pg) ==
    {pg} \cup
    {[pg EXCEPT !.slots = [j \in 1..Len(pg.slots) |->
                              IF PastEnd(pg.slots[j]) THEN PastEndLost(pg.slots[j])
                              ELSE pg.slots[j]]]}

PageInsert ==
    \E data \in PageData :
        /\ data_.slot_count < MaxSlots
        /\ \E r \in {insert_record(data_, data, U16(PayloadSize(data)))} :
               /\ data_' \in Outcomes(r.page)
               /\ expect' = IF r.ok THEN Append(expect, [data |-> data, deleted |-> FALSE])
                            ELSE expect
        /\ UNCHANGED nonPageVars

PageUpdate ==
    \E slot_index \in 0..(MaxSlots - 1), data \in PageData :
        /\ \E r \in {update_record(data_, slot_index, data, U16(PayloadSize(data)))} :
               /\ data_' \in Outcomes(r.page)
               /\ expect' = IF r.ok
                            THEN [expect EXCEPT ![slot_index + 1].data = data]
                            ELSE expect
        /\ UNCHANGED nonPageVars

PageDelete ==
    \E slot_index \in 0..(MaxSlots - 1) :
        /\ \E r \in {delete_record(data_, slot_index)} :
               /\ data_' = r.page
               /\ expect' = IF r.ok
                            THEN [expect EXCEPT ![slot_index + 1].deleted = TRUE]
                            ELSE expect
        /\ UNCHANGED nonPageVars

NextPage == PageInsert \/ PageUpdate \/ PageDelete

SpecPage == Init /\ [][NextPage]_vars

\* C14: get_record gives for every slot the bytes and the length of the last
\* successful insert or update of that slot, whatever was done to the other
\* slots since, and fails for a slot that was deleted.
C14_PageRoundTrip ==
    \A i \in 1..Len(expect) :
        IF expect[i].deleted THEN ~get_record(data_, i - 1)
        ELSE /\ get_record(data_, i - 1)
             /\ data_.slots[i].length = PayloadSize(expect[i].data)
             /\ record_bytes(data_, i - 1) = expect[i].data

RECURSIVE LiveBytes(_, _)
\* The sum of the lengths of the live records in the first n slots.
LiveBytes(pg, n) ==
    IF n = 0 THEN 0
    ELSE LiveBytes(pg, n - 1) + IF get_record(pg, n - 1) THEN pg.slots[n].length ELSE 0

\* C15: free_space, the lengths of the live records, 4 bytes per slot and
\* the 24 bytes of the header add up to the 8192 bytes of the page.
C15_FreeSpaceExact ==
    data_.free_space + LiveBytes(data_, data_.slot_count)
        + SlotEntrySize * data_.slot_count + PageHeaderSize = PAGE_SIZE


(***************************************************************************)
(* Arena (src/src/memory/arena.cpp:13-101, src/unnamed/part_013:107-117)   *)
(* A block is its size and its used bytes; the bytes themselves are never  *)
(* read by the arena. make_unique throws std::bad_alloc when the heap has  *)
(* no room for the block: the heap gives the arena HeapBytes bytes.        *)
(* An allocation returns [arena, ptr, threw]: ptr is FALSE for nullptr.    *)
(***************************************************************************)
\* The bytes the heap can give the arena.
HeapBytes == 48

\* The block_size the arena is constructed with.
ArenaBlockSize == 16

\* Arena::align_up(value, alignment), for an alignment that is a power of 2
align_up(value, alignment) ==
    USize(value + alignment - 1) - (USize(value + alignment - 1) % alignment)

\* std::make_unique<uint8_t[]>(size) returns
HeapGives(a, size) == a.capacity_ + size <= HeapBytes

\* Arena::add_block(), when make_unique returns
add_block(a) ==
    [a EXCEPT !.blocks_ = Append(@, [size |-> a.block_size_, used |-> 0]),
              !.capacity_ = USize(@ + a.block_size_)]

\* Arena(block_size)
NewArena(block_size) ==
    add_block([block_size_ |-> block_size, blocks_ |-> <<>>, current_block_ |-> 0,
               bytes_allocated_ |-> 0, capacity_ |-> 0])

\* allocate: `aligned_offset + size <= block.size` for the current block
FitsCurrent(a, size, alignment) ==
    USize(align_up(a.blocks_[a.current_block_ + 1].used, alignment) + size)
        <= a.blocks_[a.current_block_ + 1].size

\* allocate: the bytes are taken from the current block
Bumped(a, size, alignment) ==
    [a EXCEPT !.blocks_[a.current_block_ + 1].used = USize(align_up(@, alignment) + size),
              !.bytes_allocated_ = USize(@ + size)]

\* allocate: min_block_size
min_block_size(size, alignment) == USize(align_up(size, alignment) + alignment)

\* allocate: an oversized block just for this allocation
Oversized(a, size, alignment) ==
    [a EXCEPT !.blocks_ = Append(@, [size |-> min_block_size(size, alignment),
                                     used |-> USize(align_up(0, alignment) + size)]),
              !.current_block_ = Len(a.blocks_),
              !.capacity_ = USize(@ + min_block_size(size, alignment)),
              !.bytes_allocated_ = USize(@ + size)]

RECURSIVE Arena_allocate(_, _, _)
\* Arena::allocate(size, alignment)
Arena_allocate(a, size, alignment) ==
    IF size = 0 THEN [arena |-> a, ptr |-> FALSE, threw |-> FALSE]
    ELSE IF a.current_block_ < Len(a.blocks_)
    THEN IF FitsCurrent(a, size, alignment)
         THEN [arena |-> Bumped(a, size, alignment), ptr |-> TRUE, threw |-> FALSE]
         ELSE Arena_allocate([a EXCEPT !.current_block_ = @ + 1], size, alignment)
    ELSE IF min_block_size(size, alignment) > a.block_size_
    THEN IF HeapGives(a, min_block_size(size, alignment))
         THEN [arena |-> Oversized(a, size, alignment), ptr |-> TRUE, threw |-> FALSE]
         ELSE [arena |-> a, ptr |-> FALSE, threw |-> TRUE]
    ELSE IF HeapGives(a, a.block_size_)
    THEN Arena_allocate(add_block(a), size, alignment)
    ELSE [arena |-> a, ptr |-> FALSE, threw |-> TRUE]

\* Arena::reset()
Arena_reset(a) ==
    [a EXCEPT !.blocks_ = [i \in 1..Len(@) |-> [@[i] EXCEPT !.used = 0]],
              !.current_block_ = 0,
              !.bytes_allocated_ = 0]

\* Arena::block_count()
block_count(a) == Len(a.blocks_)

\* QueryAllocator::allocate(size, alignment) on its arena: [qa, arena, ptr,
\* threw, signalled], signalled for MemoryBudgetExceeded
Charged(qa, size, r) ==
    [qa |-> IF r.ptr THEN [qa EXCEPT !.bytes_used_ = USize(@ + size)] ELSE qa,
     arena |-> r.arena, ptr |-> r.ptr, threw |-> r.threw, signalled |-> FALSE]

QueryAllocator_allocate(qa, a, size, alignment) ==
    IF would_exceed(qa, size)
    THEN [qa |-> qa, arena |-> a, ptr |-> FALSE, threw |-> FALSE, signalled |-> TRUE]
    ELSE Charged(qa, size, Arena_allocate(a, size, alignment))

\* QueryAllocator::reset()
QueryAllocator_reset(qa) == [qa EXCEPT !.bytes_used_ = 0]


(***************************************************************************)
(* An arena and the allocator of a query under their callers               *)
(* (src/unnamed/part_001:17-76 constructs both per query).                 *)
(* mem_log keeps what the callers saw: the allocations the arena was asked *)
(* for since its last reset (now) and between the two resets before        *)
(* (before), the blocks and capacity at the last reset, and the last call  *)
(* with the objects as they were when it was made.                         *)
(***************************************************************************)
\* The most calls made on the two objects.
MaxCalls == 4

\* The allocations asked for: a small aligned one, an unaligned one, an
\* empty one, one larger than a block, and two near SIZE_MAX.
Requests ==
    {[size |-> 1, alignment |-> 8], [size |-> 9, alignment |-> 1],
     [size |-> 0, alignment |-> 8], [size |-> ArenaBlockSize + 1, alignment |-> 8],
     [size |-> SIZE_MAX, alignment |-> 8], [size |-> SIZE_MAX - 7, alignment |-> 8]}

\* The memory limits of the query.
MemoryLimits == {ArenaBlockSize, SIZE_MAX}

AllocationOf(q, r) == [size |-> q.size, alignment |-> q.alignment, ptr |-> r.ptr, threw |-> r.threw]

Call(name, q, signalled) ==
    [call |-> name, size |-> q.size, alignment |-> q.alignment, signalled |-> signalled,
     arena |-> arena_, qa |-> allocator_]

NoRequest == [size |-> 0, alignment |-> 0]

ArenaAllocate ==
    \E q \in Requests :
        /\ mem_log.calls < MaxCalls
        /\ \E r \in {Arena_allocate(arena_, q.size, q.alignment)} :
               /\ arena_' = r.arena
               /\ mem_log' = [mem_log EXCEPT !.calls = @ + 1,
                                             !.now = Append(@, AllocationOf(q, r)),
                                             !.last = Call("Arena::allocate", q, FALSE)]
        /\ UNCHANGED <<allocator_, nonMemVars>>

ArenaReset ==
    /\ mem_log.calls < MaxCalls
    /\ arena_' = Arena_reset(arena_)
    /\ mem_log' = [calls |-> mem_log.calls + 1, now |-> <<>>, before |-> mem_log.now,
                   last |-> Call("Arena::reset", NoRequest, FALSE),
                   at_reset |-> [blocks |-> block_count(arena_),
                                 capacity |-> arena_.capacity_]]
    /\ UNCHANGED <<allocator_, nonMemVars>>

QueryAllocate ==
    \E q \in Requests :
        /\ mem_log.calls < MaxCalls
        /\ \E r \in {QueryAllocator_allocate(allocator_, arena_, q.size, q.alignment)} :
               /\ arena_' = r.arena
               /\ allocator_' = r.qa
               /\ mem_log' = [mem_log EXCEPT !.calls = @ + 1,
                                             !.now = IF r.signalled THEN @
                                                     ELSE Append(@, AllocationOf(q, r)),
                                             !.last = Call("QueryAllocator::allocate", q,
                                                           r.signalled)]
        /\ UNCHANGED nonMemVars

QueryReset ==
    /\ mem_log.calls < MaxCalls
    /\ allocator_' = QueryAllocator_reset(allocator_)
    /\ mem_log' = [mem_log EXCEPT !.calls = @ + 1,
                                  !.last = Call("QueryAllocator::reset", NoRequest, FALSE)]
    /\ UNCHANGED <<arena_, nonMemVars>>

InitArena ==
    /\ InitRW
    /\ InitStorage
    /\ InitExec
    /\ InitPage
    /\ InitTrack
    /\ InitLru
    /\ InitThreadPool
    /\ InitRec
    /\ InitShut
    /\ arena_ = NewArena(ArenaBlockSize)
    /\ \E l \in MemoryLimits : allocator_ = NewQueryAllocator(l)
    /\ mem_log = [calls |-> 0, now |-> <<>>, before |-> <<>>,
                  last |-> [call |-> "none", size |-> 0, alignment |-> 0,
                            signalled |-> FALSE, arena |-> arena_, qa |-> allocator_],
                  at_reset |-> [blocks |-> 0, capacity |-> 0]]

NextArena == ArenaAllocate \/ ArenaReset \/ QueryAllocate \/ QueryReset

SpecArena == InitArena /\ [][NextArena]_vars

RECURSIVE TotalSize(_)
\* The sum of the sizes of the allocations of a log.
TotalSize(log) == IF log = <<>> THEN 0 ELSE log[1].size + TotalSize(Tail(log))

\* An arena that was reset at least once.
WasReset == mem_log.at_reset.blocks > 0

\* The arena has the blocks and the capacity it had at its last reset.
NoBlockAdded ==
    /\ block_count(arena_) = mem_log.at_reset.blocks
    /\ arena_.capacity_ = mem_log.at_reset.capacity

\* C18 as stated: after reset bytes_allocated() is 0, and allocations whose
\* sizes add up to no more than the capacity at the reset all return memory
\* (an empty allocation aside) and add no block.
C18_ResetServesCapacity ==
    WasReset =>
        /\ mem_log.last.call = "Arena::reset" => arena_.bytes_allocated_ = 0
        /\ TotalSize(mem_log.now) <= mem_log.at_reset.capacity =>
               /\ NoBlockAdded
               /\ \A i \in 1..Len(mem_log.now) :
                      mem_log.now[i].ptr \/ mem_log.now[i].size = 0

\* The allocations since the last reset repeat, in order, allocations made
\* before it that all returned.
Replaying ==
    /\ WasReset
    /\ Len(mem_log.now) <= Len(mem_log.before)
    /\ \A i \in 1..Len(mem_log.now) :
           /\ mem_log.now[i].size = mem_log.before[i].size
           /\ mem_log.now[i].alignment = mem_log.before[i].alignment
           /\ ~mem_log.before[i].threw

\* What reset does keep: right after it bytes_allocated() is 0 and the blocks
\* and the capacity are those from before, and while the allocations made
\* since repeat those made before it, each returns as it did then and no
\* block is added.
ReplayAddsNoBlock ==
    /\ mem_log.last.call = "Arena::reset" =>
           /\ arena_.bytes_allocated_ = 0
           /\ block_count(arena_) = block_count(mem_log.last.arena)
           /\ arena_.capacity_ = mem_log.last.arena.capacity_
    /\ Replaying =>
           /\ NoBlockAdded
           /\ \A i \in 1..Len(mem_log.now) : mem_log.now[i] = mem_log.before[i]

\* C19: allocate signals MemoryBudgetExceeded exactly when bytes_used + size
\* is above memory_limit, a call that signals leaves bytes_used and the arena
\* as they were, and bytes_used is never above memory_limit.
C19_SignalsIffOverLimit ==
    /\ allocator_.bytes_used_ <= allocator_.memory_limit_
    /\ mem_log.last.call = "QueryAllocator::allocate" =>
           /\ mem_log.last.signalled <=>
                  mem_log.last.qa.bytes_used_ + mem_log.last.size
                      > mem_log.last.qa.memory_limit_
           /\ mem_log.last.signalled =>
                  allocator_ = mem_log.last.qa /\ arena_ = mem_log.last.arena


(***************************************************************************)
(* MemoryTracker (src/src/memory/memory_tracker.cpp:24-63,                 *)
(*                src/src/memory/memory_tracker.hpp:89-93)                 *)
(* Every load, compare_exchange_weak and fetch_add on an atomic is one     *)
(* step of its thread; what a thread holds between them (current, limit,   *)
(* old_peak) is in calls[t]. A compare_exchange_weak that fails for no     *)
(* reason reloads the value its thread already holds and changes nothing.  *)
(* took is the value of used_ that the successful exchange replaced.       *)
(***************************************************************************)
\* Calls of try_reserve begun in one run.
MaxReserves == 3

\* The sizes reserved and released.
TrackSizes == {1, 2, SIZE_MAX}

\* The limits the tracker is set to before the calls.
TrackLimits == {2, 3}

\* MemoryTracker(), after set_limit(limit)
NewMemoryTracker(limit) ==
    [limit_ |-> limit, used_ |-> 0, peak_ |-> 0, allocation_count_ |-> 0,
     failed_count_ |-> 0]

\* A thread in no call, and what its last call returned.
Idle(outcome, size, took) ==
    [pc |-> "idle", size |-> size, current |-> 0, limit |-> 0, old_peak |-> 0,
     took |-> took, result |-> outcome]

\* The calls of try_reserve begun and not yet counted by the tracker.
Reserving == {t \in Callers : calls[t].pc \in {"reserve_limit", "reserve_cas"}}

\* try_reserve(size): size_t current = used_.load()
TryReserveLoadUsed(t) ==
    \E size \in TrackSizes :
        /\ calls[t].pc = "idle"
        /\ tracker_.allocation_count_ + tracker_.failed_count_ + Cardinality(Reserving)
               < MaxReserves
        /\ calls' = [calls EXCEPT ![t] = [Idle("none", size, 0) EXCEPT
                                              !.pc = "reserve_limit",
                                              !.current = tracker_.used_]]
        /\ UNCHANGED <<tracker_, nonTrackVars>>

\* try_reserve: size_t limit = limit_.load()
TryReserveLoadLimit(t) ==
    /\ calls[t].pc = "reserve_limit"
    /\ calls' = [calls EXCEPT ![t].pc = "reserve_cas", ![t].limit = tracker_.limit_]
    /\ UNCHANGED <<tracker_, nonTrackVars>>

\* try_reserve: `current + size > limit`
OverLimit(c) == USize(c.current + c.size) > c.limit

\* try_reserve: the test fails, failed_count_.fetch_add(1) and return false
TryReserveRefuse(t) ==
    /\ calls[t].pc = "reserve_cas"
    /\ OverLimit(calls[t])
    /\ tracker_' = [tracker_ EXCEPT !.failed_count_ = @ + 1]
    /\ calls' = [calls EXCEPT ![t] = Idle("false", calls[t].size, 0)]
    /\ UNCHANGED nonTrackVars

\* try_reserve: used_.compare_exchange_weak(current, current + size)
TryReserveExchange(t) ==
    /\ calls[t].pc = "reserve_cas"
    /\ ~OverLimit(calls[t])
    /\ IF tracker_.used_ = calls[t].current
       THEN /\ tracker_' = [tracker_ EXCEPT !.used_ = USize(calls[t].current + calls[t].size)]
            /\ calls' = [calls EXCEPT ![t].pc = "reserve_count", ![t].took = tracker_.used_]
       ELSE /\ calls' = [calls EXCEPT ![t].current = tracker_.used_]
            /\ UNCHANGED tracker_
    /\ UNCHANGED nonTrackVars

\* try_reserve: allocation_count_.fetch_add(1)
TryReserveCount(t) ==
    /\ calls[t].pc = "reserve_count"
    /\ tracker_' = [tracker_ EXCEPT !.allocation_count_ = @ + 1]
    /\ calls' = [calls EXCEPT ![t].pc = "peak_load"]
    /\ UNCHANGED nonTrackVars

\* try_reserve: size_t old_peak = peak_.load()
TryReservePeakLoad(t) ==
    /\ calls[t].pc = "peak_load"
    /\ calls' = [calls EXCEPT ![t].pc = "peak_cas", ![t].old_peak = tracker_.peak_]
    /\ UNCHANGED <<tracker_, nonTrackVars>>

\* try_reserve: size_t new_used = current + size
new_used(c) == USize(c.current + c.size)

\* try_reserve: the loop `while (new_used > old_peak)` and return true
TryReservePeak(t) ==
    /\ calls[t].pc = "peak_cas"
    /\ IF new_used(calls[t]) > calls[t].old_peak
       THEN IF tracker_.peak_ = calls[t].old_peak
            THEN /\ tracker_' = [tracker_ EXCEPT !.peak_ = new_used(calls[t])]
                 /\ calls' = [calls EXCEPT ![t] = Idle("true", calls[t].size, calls[t].took)]
            ELSE /\ calls' = [calls EXCEPT ![t].old_peak = tracker_.peak_]
                 /\ UNCHANGED tracker_
       ELSE /\ calls' = [calls EXCEPT ![t] = Idle("true", calls[t].size, calls[t].took)]
            /\ UNCHANGED tracker_
    /\ UNCHANGED nonTrackVars

\* release(size): size_t current = used_.load()
ReleaseLoadUsed(t) ==
    \E size \in TrackSizes :
        /\ calls[t].pc = "idle"
        /\ calls' = [calls EXCEPT ![t] = [Idle("none", size, 0) EXCEPT
                                              !.pc = "release_cas",
                                              !.current = tracker_.used_]]
        /\ UNCHANGED <<tracker_, nonTrackVars>>

\* release: `current > size ? current - size : 0`
Released(current, size) == IF current > size THEN current - size ELSE 0

\* release: used_.compare_exchange_weak(current, ...) until it succeeds
ReleaseExchange(t) ==
    /\ calls[t].pc = "release_cas"
    /\ IF tracker_.used_ = calls[t].current
       THEN /\ tracker_' = [tracker_ EXCEPT !.used_ = Released(calls[t].current, calls[t].size)]
            /\ calls' = [calls EXCEPT ![t] = Idle("released", calls[t].size, 0)]
       ELSE /\ calls' = [calls EXCEPT ![t].current = tracker_.used_]
            /\ UNCHANGED tracker_
    /\ UNCHANGED nonTrackVars

InitTracker ==
    /\ InitRW
    /\ InitStorage
    /\ InitExec
    /\ InitPage
    /\ InitMem
    /\ InitLru
    /\ InitThreadPool
    /\ InitRec
    /\ InitShut
    /\ \E limit \in TrackLimits : tracker_ = NewMemoryTracker(limit)
    /\ calls = [t \in Callers |-> Idle("none", 0, 0)]

NextTracker ==
    \E t \in Callers :
        \/ TryReserveLoadUsed(t)
        \/ TryReserveLoadLimit(t)
        \/ TryReserveRefuse(t)
        \/ TryReserveExchange(t)
        \/ TryReserveCount(t)
        \/ TryReservePeakLoad(t)
        \/ TryReservePeak(t)
        \/ ReleaseLoadUsed(t)
        \/ ReleaseExchange(t)

SpecTracker == InitTracker /\ [][NextTracker]_vars

\* A thread whose try_reserve exchanged used_: it returns, or has returned, true.
Admitted(t) ==
    calls[t].pc \in {"reserve_count", "peak_load", "peak_cas"} \/ calls[t].result = "true"

\* C20: used is never above limit and never below 0, and a try_reserve(size)
\* that returns true replaced a value of used with used + size <= limit.
C20_ReserveWithinLimit ==
    /\ tracker_.used_ <= tracker_.limit_
    /\ tracker_.used_ >= 0
    /\ \A t \in Callers : Admitted(t) => calls[t].took + calls[t].size <= tracker_.limit_


(***************************************************************************)
(* Transaction handles and their owners (src/unnamed/part_009:34-118,      *)
(* src/src/concurrency/transaction.hpp:35-86, 153-196).                    *)
(* begin_read, begin_write and try_begin_write return a                    *)
(* std::unique_ptr<Transaction>. Its owner can let it go out of scope      *)
(* (Transaction has no destructor of its own), put it in a                 *)
(* TransactionGuard, whose destructor aborts an ACTIVE transaction, or     *)
(* call commit or abort on a transaction that has ended already.           *)
(* active_count_ is a uint64_t counter: fetch_sub(1) at 0 wraps.           *)
(***************************************************************************)
\* active_count_.fetch_sub(1)
FetchSub(count) == USize(count + SIZE_MAX)

\* ~unique_ptr<Transaction>() of an ACTIVE transaction that no guard holds:
\* the Transaction is deleted, nothing else is called.
DropHandle(t) ==
    /\ pc[t] = "active"
    /\ txn' = [txn EXCEPT ![t] = NoTxn]
    /\ pc' = [pc EXCEPT ![t] = "idle"]
    /\ UNCHANGED <<readers_, writer_, waiting_writers_, next_id_, active_count_,
                   pendingW, ahead, storageVars>>

\* ~TransactionGuard() of an ACTIVE transaction: abort(), that is
\* TransactionManager::abort up to end_transaction's fetch_sub.
DropGuard(t) == Abort(t)

\* TransactionManager::commit or abort (also through TransactionGuard::commit
\* and abort) on a transaction that is COMMITTED or ABORTED: the state is set
\* and end_transaction runs again, first its fetch_sub.
EndTransactionAgain(t, new_state) ==
    /\ pc[t] = "ended"
    /\ readers_ >= 0
    /\ active_count_ <= NThreads
    /\ txn' = [txn EXCEPT ![t].state = new_state]
    /\ active_count_' = FetchSub(active_count_)
    /\ pc' = [pc EXCEPT ![t] = "ending_again"]
    /\ UNCHANGED <<readers_, writer_, waiting_writers_, next_id_, pendingW, ahead,
                   storageVars>>

EndAgain(t) == \E new_state \in {"COMMITTED", "ABORTED"} : EndTransactionAgain(t, new_state)

\* end_transaction's unlock, run again.
EndUnlockAgain(t) ==
    /\ pc[t] = "ending_again"
    /\ IF txn[t].read_only
         THEN UnlockReadBy(t, "ended")
         ELSE UnlockWriteBy(t, "ended")
    /\ UNCHANGED <<txn, storageVars>>

NextTxn ==
    \E t \in Threads :
        \/ LockRead(t)
        \/ RecheckRead(t)
        \/ LockWrite(t)
        \/ RecheckWrite(t)
        \/ SpuriousWake(t)
        \/ TryLockWrite(t)
        \/ TryLockFail(t)
        \/ MakeTransaction(t)
        \/ Commit(t)
        \/ DropGuard(t)
        \/ EndUnlock(t)
        \/ Release(t)
        \/ DropHandle(t)
        \/ EndAgain(t)
        \/ EndUnlockAgain(t)

\* The coordinator with owners that drop handles and end transactions twice.
SpecTxn == Init /\ [][NextTxn]_vars

\* The thread lets go of its ACTIVE transaction in this step.
Dropped(t) == pc[t] = "active" /\ pc'[t] = "idle"

\* C21: when an ACTIVE handle is dropped, the lock of its transaction is
\* released and active_count is decremented.
C21_DropAborts ==
    [][\A t \in Threads :
           Dropped(t) =>
               /\ active_count_' = active_count_ - 1
               /\ IF txn[t].read_only THEN readers_' = readers_ - 1 ELSE ~writer_']_vars

\* The thread is inside commit or abort of a transaction that had ended.
EndingAgain(t) ==
    \/ pc[t] = "ended" /\ pc'[t] = "ending_again"
    \/ pc[t] = "ending_again" /\ pc'[t] = "ended"

\* C27: commit or abort on a transaction that is COMMITTED or ABORTED changes
\* neither readers_, writer_ nor active_count.
C27_EndsOnce ==
    [][\A t \in Threads : EndingAgain(t) => UNCHANGED <<readers_, writer_, active_count_>>]_vars


(***************************************************************************)
(* The RWLock used for ever (src/src/concurrency/rw_lock.cpp:11-82).       *)
(* Threads take and release the lock again and again. A thread that holds  *)
(* the lock releases it, and a thread woken from a condition variable      *)
(* gets the mutex and re-tests its predicate: these steps are weakly fair. *)
(* Nothing obliges a thread to ask for the lock, a wait to wake without a  *)
(* notification, or the mutex to be handed to the thread that waited       *)
(* longest: std::mutex and std::condition_variable promise no order.       *)
(***************************************************************************)
\* RWLock::unlock_read by a thread whose lock_read returned.
UnlockReadHeld(t) ==
    /\ pc[t] = "rd_locked"
    /\ UnlockReadBy(t, "idle")
    /\ UNCHANGED <<txn, storageVars>>

\* RWLock::unlock_write by a thread whose lock_write or try_lock_write returned.
UnlockWriteHeld(t) ==
    /\ pc[t] = "wr_locked"
    /\ UnlockWriteBy(t, "idle")
    /\ UNCHANGED <<txn, storageVars>>

NextLock ==
    \E t \in Threads :
        \/ LockRead(t)
        \/ RecheckRead(t)
        \/ LockWrite(t)
        \/ RecheckWrite(t)
        \/ SpuriousWake(t)
        \/ TryLockWrite(t)
        \/ TryLockFail(t)
        \/ TryLockRead(t)
        \/ UnlockReadRaw(t)
        \/ UnlockReadHeld(t)
        \/ UnlockWriteHeld(t)

\* Holders release and woken threads run.
FairLock ==
    \A t \in Threads :
        /\ WF_vars(UnlockReadRaw(t))
        /\ WF_vars(UnlockReadHeld(t))
        /\ WF_vars(UnlockWriteHeld(t))
        /\ WF_vars(RecheckRead(t))
        /\ WF_vars(RecheckWrite(t))

SpecLock == Init /\ [][NextLock]_vars /\ FairLock

\* C24: a thread blocked in lock_write acquires the write lock in the end.
C24_WriterAcquires ==
    \A t \in Threads : (pc[t] \in {"wr_wait", "wr_wake"}) ~> (pc[t] = "wr_locked")


(***************************************************************************)
(* ShutdownCoordinator (src/src/storage/page.hpp:208-290) and              *)
(* ActiveOperationGuard (src/src/storage/page.hpp:313-360).                *)
(* main() registers the callbacks, waits for the signal and then calls     *)
(* initiate (src/src/concurrency/rw_lock.cpp:217-240).  The callbacks are  *)
(* opaque: they return or throw, and do not call the coordinator.          *)
(***************************************************************************)
\* enum class Phase
STOP_ACCEPTING == 0

DRAIN_CONNECTIONS == 1

FLUSH_WAL == 2

DONE == 5

Phases == STOP_ACCEPTING..DONE

\* The phases callbacks are registered for: the two of main() and FLUSH_WAL.
CallbackPhases == {STOP_ACCEPTING, DRAIN_CONNECTIONS, FLUSH_WAL}

\* The thread of main(): it registers the callbacks and calls initiate.  The
\* other threads are the workers the operations run on; any thread may call
\* initiate as well.
MainThread == 1

Workers == Callers \ {MainThread}

\* How many callbacks are registered in all.
MaxCallbacks == 2

Registered == shutdown_.phase_callbacks_[0] + shutdown_.phase_callbacks_[1]
              + shutdown_.phase_callbacks_[2] + shutdown_.phase_callbacks_[3]
              + shutdown_.phase_callbacks_[4] + shutdown_.phase_callbacks_[5]

\* The threads between the fetch_add of a guard's constructor and the
\* fetch_sub of its destructor.
InProgress == {t \in Callers : sd[t].pc = "in_op"}

\* An entry of the history; the start of a callback also records how many
\* operations are in progress and where the clock is.
Event(kind, phase, cb) ==
    [kind |-> kind, phase |-> phase, cb |-> cb,
     active |-> IF kind = "start" THEN Cardinality(InProgress) ELSE 0,
     zone |-> IF kind = "start" THEN zone ELSE 0]

\* The signal handler: g_shutdown_requested = true.
RequestShutdown ==
    /\ ~guard_.g_shutdown_requested
    /\ guard_' = [guard_ EXCEPT !.g_shutdown_requested = TRUE]
    /\ UNCHANGED <<shutdown_, sd, zone, ran, nonShutVars>>

\* The steady clock moves on towards the deadline and past it.
Tick ==
    /\ shutdown_.shutdown_started_ /\ ~shutdown_.shutdown_complete_
    /\ zone < 2
    /\ zone' = zone + 1
    /\ UNCHANGED <<shutdown_, guard_, sd, ran, nonShutVars>>

\* register_callback(phase, callback): push_back under mutex_.
register_callback(s, phase) == [s EXCEPT !.phase_callbacks_[phase] = @ + 1]

RegisterCallback(t) ==
    \E phase \in CallbackPhases :
        /\ t = MainThread
        /\ sd[t].pc = "idle" /\ shutdown_.mutex_ = 0
        /\ Registered < MaxCallbacks
        /\ shutdown_' = register_callback(shutdown_, phase)
        /\ UNCHANGED <<guard_, sd, zone, ran, nonShutVars>>

\* An exchange that always finds the flag clear.
NeverStarted(s) == FALSE

\* What shutdown_started_.exchange(true) returns.
AlreadyStarted(s) == s.shutdown_started_

\* initiate(timeout): the exchange, and the deadline of the caller that won it.
Initiate(t) ==
    /\ sd[t].pc = "idle" /\ guard_.g_shutdown_requested
    /\ IF AlreadyStarted(shutdown_)
       THEN /\ sd' = [sd EXCEPT ![t].pc = "wait_done"]
            /\ UNCHANGED <<shutdown_, zone>>
       ELSE /\ shutdown_' = [shutdown_ EXCEPT !.shutdown_started_ = TRUE]
            /\ sd' = [sd EXCEPT ![t].pc = "loop", ![t].i = STOP_ACCEPTING]
            /\ zone' = 0
    /\ UNCHANGED <<guard_, ran, nonShutVars>>

\* The head of the loop: past DONE the shutdown is complete and initiate
\* returns true, past the deadline it returns false.
PhaseLoopEnd(t) ==
    /\ sd[t].pc = "loop"
    /\ sd[t].i > DONE \/ zone = 2
    /\ shutdown_' = [shutdown_ EXCEPT !.shutdown_complete_ = @ \/ sd[t].i > DONE]
    /\ sd' = [sd EXCEPT ![t].pc = "idle"]
    /\ UNCHANGED <<guard_, zone, ran, nonShutVars>>

\* Else execute_phase(phase): takes mutex_ and sets current_phase_.
ExecutePhase(t) ==
    /\ sd[t].pc = "loop"
    /\ sd[t].i <= DONE /\ zone # 2
    /\ shutdown_.mutex_ = 0
    /\ shutdown_' = [shutdown_ EXCEPT !.mutex_ = t, !.current_phase_ = sd[t].i]
    /\ ran' = Append(ran, Event("phase", sd[t].i, 0))
    /\ sd' = [sd EXCEPT ![t].pc = "callbacks", ![t].cb = 1]
    /\ UNCHANGED <<guard_, zone, nonShutVars>>

\* callback() is called ...
CallbackStart(t) ==
    /\ sd[t].pc = "callbacks" /\ sd[t].cb <= shutdown_.phase_callbacks_[sd[t].i]
    /\ ran' = Append(ran, Event("start", sd[t].i, sd[t].cb))
    /\ sd' = [sd EXCEPT ![t].pc = "in_callback"]
    /\ UNCHANGED <<shutdown_, guard_, zone, nonShutVars>>

\* ... and returns or throws: what it throws is caught and logged.
CallbackEnd(t) ==
    /\ sd[t].pc = "in_callback"
    /\ ran' = Append(ran, Event("finish", sd[t].i, sd[t].cb))
    /\ sd' = [sd EXCEPT ![t].pc = "callbacks", ![t].cb = @ + 1]
    /\ UNCHANGED <<shutdown_, guard_, zone, nonShutVars>>

\* remaining = duration_cast<seconds>(deadline - now): the whole seconds left.
RemainingCount(z) == IF z = 0 THEN 1 ELSE 0

\* execute_phase returns: mutex_ is released.  After DRAIN_CONNECTIONS the
\* loop waits for the operations if a whole second is left; after any other
\* phase, and with less than a second left, it goes on to the next phase.
PhaseDone(t) ==
    /\ sd[t].pc = "callbacks" /\ sd[t].cb > shutdown_.phase_callbacks_[sd[t].i]
    /\ shutdown_' = [shutdown_ EXCEPT !.mutex_ = 0]
    /\ sd' = IF sd[t].i = DRAIN_CONNECTIONS /\ RemainingCount(zone) > 0
             THEN [sd EXCEPT ![t].pc = "drain_wait"]
             ELSE [sd EXCEPT ![t].pc = "loop", ![t].i = @ + 1]
    /\ UNCHANGED <<guard_, zone, ran, nonShutVars>>

\* wait_all_complete(remaining): returns when it sees active_count_ == 0, or
\* when the whole seconds it was given are over, which is within the last
\* second before the deadline.
WaitAllComplete(t) ==
    /\ sd[t].pc = "drain_wait"
    /\ guard_.active_count_ = 0 \/ zone >= 1
    /\ sd' = [sd EXCEPT ![t].pc = "loop", ![t].i = @ + 1]
    /\ UNCHANGED <<shutdown_, guard_, zone, ran, nonShutVars>>

\* wait_for_phase(DONE, timeout) of a caller that lost the exchange: under
\* mutex_, returns when the predicate holds or its own timeout is over.
WaitForPhase(t) ==
    /\ sd[t].pc = "wait_done" /\ shutdown_.mutex_ = 0
    /\ sd' = [sd EXCEPT ![t].pc = "idle"]
    /\ UNCHANGED <<shutdown_, guard_, zone, ran, nonShutVars>>

\* ActiveOperationGuard(): the test of the flag ...
GuardConstruct(t) ==
    /\ t \in Workers
    /\ sd[t].pc = "idle"
    /\ sd' = IF guard_.g_shutdown_requested
             THEN [sd EXCEPT ![t].valid_ = FALSE]
             ELSE [sd EXCEPT ![t].pc = "guard"]
    /\ UNCHANGED <<shutdown_, guard_, zone, ran, nonShutVars>>

\* ... and then active_count_.fetch_add(1).
GuardFetchAdd(t) ==
    /\ sd[t].pc = "guard"
    /\ guard_' = [guard_ EXCEPT !.active_count_ = USize(@ + 1)]
    /\ sd' = [sd EXCEPT ![t].pc = "in_op", ![t].valid_ = TRUE]
    /\ UNCHANGED <<shutdown_, zone, ran, nonShutVars>>

\* ~ActiveOperationGuard(): fetch_sub(1) of a valid guard.
GuardDestruct(t) ==
    /\ sd[t].pc = "in_op"
    /\ guard_' = [guard_ EXCEPT !.active_count_ = FetchSub(@)]
    /\ sd' = [sd EXCEPT ![t].pc = "idle", ![t].valid_ = FALSE]
    /\ UNCHANGED <<shutdown_, zone, ran, nonShutVars>>

NextShutdown ==
    \/ RequestShutdown
    \/ Tick
    \/ \E t \in Callers :
           \/ RegisterCallback(t)
           \/ Initiate(t)
           \/ PhaseLoopEnd(t)
           \/ ExecutePhase(t)
           \/ CallbackStart(t)
           \/ CallbackEnd(t)
           \/ PhaseDone(t)
           \/ WaitAllComplete(t)
           \/ WaitForPhase(t)
           \/ GuardConstruct(t)
           \/ GuardFetchAdd(t)
           \/ GuardDestruct(t)

SpecShutdown == Init /\ [][NextShutdown]_vars

\* The callbacks that were started.
Starts == {k \in DOMAIN ran : ran[k].kind = "start"}

Finished(j, k) ==
    \E f \in (j + 1)..(k - 1) :
        ran[f].kind = "finish" /\ ran[f].phase = ran[j].phase /\ ran[f].cb = ran[j].cb

\* C22: however many callers of initiate there are, the phases are entered in
\* enum order and current_phase_ never moves backwards, every callback of a
\* phase has finished before a callback of a later phase starts, and no
\* registered callback is started twice.
C22_PhasesInOrder ==
    /\ \A j, k \in DOMAIN ran : j < k => ran[j].phase <= ran[k].phase
    /\ \A j, k \in Starts : j < k /\ ran[j].phase < ran[k].phase => Finished(j, k)
    /\ \A j, k \in Starts :
           j # k => ran[j].phase # ran[k].phase \/ ran[j].cb # ran[k].cb
    /\ \A k \in DOMAIN ran :
           ran[k].kind = "phase" /\ (\A j \in (k + 1)..Len(ran) : ran[j].kind # "phase")
               => shutdown_.current_phase_ = ran[k].phase

\* Two callers of initiate, one of them waiting for the other, which has run
\* callbacks of two phases.
C22_Witness ==
    /\ \E t \in Callers : sd[t].pc = "wait_done"
    /\ \E j, k \in Starts : ran[j].phase < ran[k].phase

\* C23: when a FLUSH_WAL callback starts, no operation that registered a
\* guard is still in progress, unless the deadline has passed.
C23_DrainedBeforeFlush ==
    \A k \in Starts : ran[k].phase = FLUSH_WAL => ran[k].active = 0 \/ ran[k].zone = 2


(***************************************************************************)
(* RecoveryManager::needs_recovery and the return value of recover()       *)
(* (src/src/storage/page_manager.cpp:461-524), called on a start after a   *)
(* crash.                                                                  *)
(***************************************************************************)
\* needs_recovery(): find_last_checkpoint() on what read_all gives, then
\* read_from(checkpoint_lsn), which fails on a WAL that is not open.
needs_recovery(file, good, open) ==
    IF ~open THEN FALSE
    ELSE Len(read_from(file, TRUE, find_last_checkpoint(read_all(file, good)))) > 1

NeedsRecovery ==
    /\ crashes >= 1
    /\ rec_pc = "idle"
    /\ ~needed.called /\ ~recovered.called
    /\ needed' = [called |-> TRUE, value |-> needs_recovery(wal_file, wal_good, is_open_),
                  file |-> wal_file]
    /\ wal_good' = (is_open_ \/ wal_good)
    /\ UNCHANGED <<rwVars, nonRecVars, recovered, storeVars, wal_file, wal_exists, is_open_,
                   current_lsn_, accepted, returned, opens>>

\* recover() on a WAL that is not open: the statistics are reset, read_all
\* and read_from fail, and recover() returns false before its loop.
RecoverClosed ==
    /\ ~is_open_
    /\ crashes >= 1
    /\ rec_pc = "idle"
    /\ ~recovered.called
    /\ stats_' = [NewStats EXCEPT !.start_lsn = 1]
    /\ recovered' = [called |-> TRUE, value |-> FALSE]
    /\ UNCHANGED <<rwVars, nonRecVars, needed, walVars, page_manager_, records_, rec_i,
                   rec_pc, last_checkpoint_lsn_, ck_pc, w_pc, crashes, applied, lsn_before,
                   snap, snap_prev, damage>>

\* The process crashes once, and recover() is called once after the crash.
CrashOnce == crashes = 0 /\ Crash

RecoverOnce == ~snap.taken /\ RecoverBegin

NextRecovery ==
    \/ WalOpen
    \/ WriterAllocate
    \/ WriterLog
    \/ WriterApply
    \/ FlushPage
    \/ CheckpointFlush
    \/ CheckpointLog
    \/ CrashOnce
    \/ NeedsRecovery
    \/ RecoverClosed
    \/ RecoverOnce
    \/ RecoverStep
    \/ RecoverEnd

SpecRecovery == Init /\ [][NextRecovery]_vars

\* The records a WAL file holds, and how many of them come after its last
\* CHECKPOINT record (all of them when it has none).
Held(file) == ReadLoop(file, 1, 1)

LastCheckpointAt(records) ==
    IF \E i \in DOMAIN records : records[i].type = "CHECKPOINT"
    THEN CHOOSE i \in DOMAIN records :
             /\ records[i].type = "CHECKPOINT"
             /\ \A j \in DOMAIN records : records[j].type = "CHECKPOINT" => j <= i
    ELSE 0

AfterCheckpoint(file) == Len(Held(file)) - LastCheckpointAt(Held(file))

\* C25: needs_recovery() returns true exactly when the WAL holds a record
\* after its last CHECKPOINT record, or any record when it has no CHECKPOINT.
C25_NeedsRecoveryExact ==
    needed.called => (needed.value <=> AfterCheckpoint(needed.file) >= 1)

\* recover() has returned from a WAL it could read.
Replayed == recovered.called /\ rec_pc = "done"

\* C26 as stated: every record read is processed whether or not an earlier
\* one failed, each is counted once as applied or as an error, and recover()
\* returns true if and only if the error counter is 0.
C26_ReturnsNoErrors ==
    recovered.called =>
        /\ recovered.value <=> stats_.errors = 0
        /\ stats_.records_processed = Len(records_)

\* C26 amended: the same of a recover() that could read the WAL; on a WAL
\* that is not open recover() returns false with the error counter at 0.
C26_ReturnsNoErrorsIfRead ==
    /\ rec_pc = "replay" => stats_.records_processed = rec_i - 1
    /\ rec_pc # "idle" => stats_.errors + stats_.records_applied = Len(applied)
    /\ Replayed =>
           /\ recovered.value <=> stats_.errors = 0
           /\ stats_.records_processed = Len(records_)
           /\ Len(applied) = Cardinality({i \in DOMAIN records_ :
                                             records_[i].type # "CHECKPOINT"})
    /\ recovered.called /\ ~Replayed => ~recovered.value /\ stats_.errors = 0

\* recover() has returned false: a record failed, and records were applied
\* all the same.
C26_Witness ==
    /\ Replayed /\ ~recovered.value
    /\ stats_.errors > 0 /\ stats_.records_applied > 0
    /\ stats_.records_processed = Len(records_)


\* The page of key holds payload as a live record in slot slot_id.
HoldsRecord(page, slot_id, payload) ==
    /\ get_record(page, slot_id)
    /\ page.slots[slot_id + 1].data = PTake(payload, U16(PayloadSize(payload)))

\* The page that record names is in the pool, dirty, with the payload of
\* record in the slot that record names.
StoredAt(pm, record) ==
    /\ RecordKey(record) \in DOMAIN pm.buffer_pool_
    /\ pm.buffer_pool_[RecordKey(record)].dirty
    /\ HoldsRecord(pm.buffer_pool_[RecordKey(record)].page, record.slot_id, record.payload)

\* A step of recover() that applied an INSERT record and did not skip it.
InsertReplayed ==
    /\ rec_pc = "replay" /\ rec_i' = rec_i + 1
    /\ records_[rec_i].type = "INSERT"
    /\ stats_'.records_skipped = stats_.records_skipped
    /\ stats_'.records_applied = stats_.records_applied + 1

\* C28: a replayed INSERT record that is not skipped leaves its payload in
\* the page of its page_id at its slot_id, and that page dirty in the pool.
C28_InsertReplayedInPlace == [][InsertReplayed => StoredAt(page_manager_', records_[rec_i])]_vars


(***************************************************************************)
(* Eviction and close of the buffer pool                                   *)
(* (src/src/storage/page_manager.cpp:38-103, 260-317)                      *)
(* The callers get, allocate and change pages, create table files and      *)
(* close the PageManager; every page write can fail.  lru_log.used says    *)
(* in which order the pages were last got, loaded or allocated.            *)
(***************************************************************************)
\* The keys the callers ask for: one page more than allocate_page gives out.
LruKeys == {PageKey(t, p) : t \in Tables, p \in 0..(MaxPoolPageId + 1)}

RECURSIVE Without(_, _)
\* The sequence s without key.
Without(s, key) ==
    IF s = <<>> THEN <<>>
    ELSE (IF Head(s) = key THEN <<>> ELSE <<Head(s)>>) \o Without(Tail(s), key)

\* key was got, loaded or allocated just now.
Touch(used, key) == <<key>> \o Without(used, key)

Did(used, op) == [used |-> used, last |-> op]

\* The resident pages whose latest get_page, load or allocate_page is the
\* oldest: no other resident page comes later in `used`.
Oldest(used, resident) ==
    {key \in resident :
        \A other \in resident : FirstIndex(used, other) <= FirstIndex(used, key)}

\* The pages that left the pool in this step.
Gone == DOMAIN page_manager_.buffer_pool_ \ DOMAIN page_manager_'.buffer_pool_

LruGetPage ==
    \E key \in LruKeys, written \in BOOLEAN :
        \E g \in {get_page(page_manager_, key, written)} :
            /\ Len(page_manager_.lru_list_) <= MaxLru
            /\ page_manager_' = g.pm
            /\ lru_log' = Did(IF g.page # NoPage THEN Touch(lru_log.used, key)
                              ELSE lru_log.used, "get_page")
            /\ UNCHANGED <<rwVars, walVars, storeRest, execVars, pageVars, memVars,
                           trackVars, shutVars, recVars, threadPoolVars>>

LruAllocatePage ==
    \E t \in Tables, written \in BOOLEAN :
        \E a \in {allocate_page(page_manager_, t, written)} :
            /\ page_manager_.next_page_id_[t] <= MaxPoolPageId
            /\ Len(page_manager_.lru_list_) < MaxLru
            /\ page_manager_' = a.pm
            /\ lru_log' = Did(Touch(lru_log.used, PageKey(t, a.page_id)), "allocate_page")
            /\ UNCHANGED <<rwVars, walVars, storeRest, execVars, pageVars, memVars,
                           trackVars, shutVars, recVars, threadPoolVars>>

\* A caller puts a record in a page it got and marks the page dirty.
ChangedPage(pm, key, ins) == mark_dirty(SetPage(pm, key, ins.page), key)

LruChangePage ==
    \E key \in DOMAIN page_manager_.buffer_pool_ :
        /\ page_manager_.buffer_pool_[key].page.slot_count = 0
        /\ page_manager_' =
               ChangedPage(page_manager_, key,
                           insert_record(page_manager_.buffer_pool_[key].page,
                                         Bytes(<<7>>), 1))
        /\ lru_log' = Did(lru_log.used, "mark_dirty")
        /\ UNCHANGED <<rwVars, walVars, storeRest, execVars, pageVars, memVars,
                       trackVars, shutVars, recVars, threadPoolVars>>

LruCreateTableFile ==
    \E t \in Tables, made \in BOOLEAN :
        /\ page_manager_' = create_table_file(page_manager_, t, made).pm
        /\ lru_log' = Did(lru_log.used, "create_table_file")
        /\ UNCHANGED <<rwVars, walVars, storeRest, execVars, pageVars, memVars,
                       trackVars, shutVars, recVars, threadPoolVars>>

LruClose ==
    \E okKeys \in SUBSET DOMAIN page_manager_.buffer_pool_ :
        /\ page_manager_' = PageManager_close(page_manager_, okKeys)
        /\ lru_log' = Did(lru_log.used, "close")
        /\ UNCHANGED <<rwVars, walVars, storeRest, execVars, pageVars, memVars,
                       trackVars, shutVars, recVars, threadPoolVars>>

\* The process ends and starts again: a new PageManager on the same data
\* directory, with next_page_id_ empty.
LruRestart ==
    /\ page_manager_' = [NewPageManager(page_manager_.disk)
                            EXCEPT !.max_pages_ = page_manager_.max_pages_]
    /\ lru_log' = Did(<<>>, "restart")
    /\ UNCHANGED <<rwVars, walVars, storeRest, execVars, pageVars, memVars,
                   trackVars, shutVars, recVars, threadPoolVars>>

NextLru ==
    \/ LruGetPage
    \/ LruAllocatePage
    \/ LruChangePage
    \/ LruCreateTableFile
    \/ LruClose
    \/ LruRestart

SpecLru == InitPool /\ [][NextLru]_vars

\* C29: a dirty page that eviction or close takes out of the pool is, after
\* the step, in its table file at its page id with the contents it had.
C29_DirtyWrittenBeforeDrop ==
    [][\A key \in Gone :
           page_manager_.buffer_pool_[key].dirty
               => DiskPage(page_manager_', key) = page_manager_.buffer_pool_[key].page]_vars

\* C30: a page that get_page or allocate_page takes out of a full pool is
\* the resident page that was got, loaded or allocated the longest ago.
C30_EvictsLeastRecent ==
    [][lru_log'.last \in {"get_page", "allocate_page"}
           => Gone \subseteq Oldest(lru_log.used, DOMAIN page_manager_.buffer_pool_)]_vars


\* How often key is in lru_list_.
TimesListed(pm, key) == Cardinality({i \in DOMAIN pm.lru_list_ : pm.lru_list_[i] = key})

\* C31: lru_list_ holds every resident key once and no other key, and
\* lru_map_ has an entry for the resident keys and for no other.
C31_LruListExact ==
    /\ \A key \in DOMAIN page_manager_.buffer_pool_ : TimesListed(page_manager_, key) = 1
    /\ \A i \in DOMAIN page_manager_.lru_list_ :
           page_manager_.lru_list_[i] \in DOMAIN page_manager_.buffer_pool_
    /\ page_manager_.lru_map_ = DOMAIN page_manager_.buffer_pool_


(***************************************************************************)
(* check_budget on the contexts a query can have                           *)
(* (src/unnamed/part_012:51-67, 111-136).  A context is built for one of   *)
(* CheckedBudgets with a clock that is late from reading late_at on; the   *)
(* query starts it once, records instructions and rows, allocates through  *)
(* it, may be aborted, and calls check_budget, whose exception the caller  *)
(* catches before it goes on.                                              *)
(***************************************************************************)
MaxRecorded == 2
MaxChecks == 2

CheckedBudgets ==
    {[max_memory_bytes |-> m, max_instructions |-> i, max_result_rows |-> n] :
        m \in {8}, i \in {1, 2}, n \in {1, 2}}

\* The sizes a query asks its context for.
AskedSizes == {4, 8, SIZE_MAX - 3}

\* The context once the exception of the last check is caught.
AfterCatch(c) == [c EXCEPT !.thrown = FALSE]

InitBudget ==
    /\ InitRW
    /\ InitStorage
    /\ InitPage
    /\ InitTrack
    /\ InitLru
    /\ InitThreadPool
    /\ InitRec
    /\ InitShut
    /\ InitMem
    /\ catalog_ = [tables |-> [n \in {"t"} |-> [id |-> 0]], next_table_id_ |-> 1]
    /\ \E b \in CheckedBudgets, late \in 0..MaxChecks : ctx = NewExecutionContext(b, late)
    /\ result = [success |-> FALSE]
    /\ plan_ = [stmt |-> [type |-> "NONE"], plan |-> [type |-> "NONE"]]
    /\ before = [wal |-> <<>>, pm |-> page_manager_]
    /\ history = [inserted |-> <<>>, redone |-> 0]

\* What a call on the context leaves alone.
nonCtxVars ==
    <<rwVars, walVars, storeVars, pageVars, trackVars, shutVars, recVars, lruVars,
      threadPoolVars, catalog_, result, plan_, before, history, allocator_, mem_log>>

BudgetStart ==
    /\ ~ctx.started_
    /\ ctx' = start(AfterCatch(ctx))
    /\ UNCHANGED <<arena_, nonCtxVars>>

BudgetAbort ==
    /\ ~ctx.aborted_
    /\ ctx' = abort(AfterCatch(ctx))
    /\ UNCHANGED <<arena_, nonCtxVars>>

BudgetRecordInstructions ==
    /\ ctx.stats_.instructions_executed < MaxRecorded
    /\ ctx' = record_instructions(AfterCatch(ctx), 1)
    /\ UNCHANGED <<arena_, nonCtxVars>>

BudgetRecordRow ==
    /\ ctx.stats_.rows_returned < MaxRecorded
    /\ ctx' = record_row_returned(AfterCatch(ctx))
    /\ UNCHANGED <<arena_, nonCtxVars>>

\* ExecutionContext::allocate(size)
BudgetAllocate ==
    \E size \in AskedSizes :
        \E r \in {QueryAllocator_allocate(ctx.allocator_, arena_, size, 8)} :
            /\ ~r.threw
            /\ ctx' = [AfterCatch(ctx) EXCEPT !.allocator_ = r.qa]
            /\ arena_' = r.arena
            /\ UNCHANGED nonCtxVars

BudgetCheck ==
    /\ ctx.time_checks < MaxChecks
    /\ ctx' = check_budget(AfterCatch(ctx))
    /\ UNCHANGED <<arena_, nonCtxVars>>

NextBudget ==
    \/ BudgetStart
    \/ BudgetAbort
    \/ BudgetRecordInstructions
    \/ BudgetRecordRow
    \/ BudgetAllocate
    \/ BudgetCheck

SpecBudget == InitBudget /\ [][NextBudget]_vars

\* The conditions of the budget, for the context c that check_budget is
\* called on; the clock is the one this call reads.
IsAborted(c) == c.aborted_
TimeIsUp(c) == c.started_ /\ c.late_at # 0 /\ c.time_checks + 1 >= c.late_at
InstructionsReached(c) == c.stats_.instructions_executed >= c.budget_.max_instructions
RowsReached(c) == c.stats_.rows_returned >= c.budget_.max_result_rows
MemoryOver(c) == c.allocator_.bytes_used_ > c.budget_.max_memory_bytes

\* The first condition that holds, in the order of the checks.
FirstCondition(c) ==
    IF IsAborted(c) THEN "ABORTED"
    ELSE IF TimeIsUp(c) THEN "TIMEOUT"
    ELSE IF InstructionsReached(c) THEN "INSTRUCTIONS_EXCEEDED"
    ELSE IF RowsReached(c) THEN "ROWS_EXCEEDED"
    ELSE IF MemoryOver(c) THEN "MEMORY_EXCEEDED"
    ELSE "NONE"

\* How many of the conditions hold.
ConditionsHolding(c) ==
    Cardinality({k \in 1..5 : <<IsAborted(c), TimeIsUp(c), InstructionsReached(c),
                                RowsReached(c), MemoryOver(c)>>[k]})

MemoryReached(c) == c.allocator_.bytes_used_ >= c.budget_.max_memory_bytes

C33_MemoryReachedSignalled ==
    [][(/\ BudgetCheck
        /\ MemoryReached(ctx)
        /\ ~IsAborted(ctx) /\ ~TimeIsUp(ctx)
        /\ ~InstructionsReached(ctx) /\ ~RowsReached(ctx))
       => ctx'.thrown /\ ctx'.violation_ = "MEMORY_EXCEEDED"]_vars

\* The allocator never holds more than its limit, so the memory check of
\* check_budget, which needs bytes_used_ + 0 > memory_limit_, never fires.
NeverOverLimit == ~MemoryOver(ctx)


\* The length of the record that the insert of this step accepted.
AcceptedLength == PayloadSize(expect'[Len(expect')].data)

\* The slot that the insert of this step filled.
AcceptedSlot == data_'.slots[Len(expect')]

\* C34: insert_record accepts a record only if free_space >= length + 4; a
\* rejected insert leaves the page as it was, and an accepted record lies
\* between the end of the slot directory with its new entry and the
\* data_start of before.
C34_InsertWithinPage ==
    [][PageInsert =>
          IF Len(expect') > Len(expect)
          THEN /\ data_.free_space >= AcceptedLength + SlotEntrySize
               /\ AcceptedSlot.offset >= slot_directory_end(data_) + SlotEntrySize
               /\ AcceptedSlot.offset + AcceptedLength <= data_.data_start
          ELSE data_' = data_]_vars


(***************************************************************************)
(* A WAL opened again on a file whose last record is damaged               *)
(* (src/unnamed/part_005:103-145, 158-186, 209-270, 315-344).  A client    *)
(* appends records; the process dies and leaves the last record of the     *)
(* file cut off or with an altered payload byte; the WAL is opened again   *)
(* and the client appends more.                                            *)
(***************************************************************************)
ReopenAppend ==
    /\ is_open_
    /\ \E rec \in {WalRecord("INSERT", 1, 0, Len(accepted), pl) : pl \in DamagePayloads} :
        Wal_append(rec, TRUE)
    /\ UNCHANGED nonWalVars

\* The last record of the file is cut off after n of its bytes.
TornCrash ==
    /\ damage = NoDamage
    /\ wal_file # <<>>
    /\ \E n \in 1..(wal_file[Len(wal_file)].nbytes - 1) :
        /\ CrashTo([wal_file EXCEPT ![Len(wal_file)].nbytes = n])
        /\ damage' = [kind |-> "cut", k |-> Len(wal_file)]

\* One or all bits of a payload byte of the last record are flipped.
ChecksumCrash ==
    /\ damage = NoDamage
    /\ wal_file # <<>>
    /\ \E i \in 1..(wal_file[Len(wal_file)].nbytes - WalRecordHeaderSize) :
        \E mask \in ByteMasks :
            /\ CrashTo([wal_file EXCEPT
                           ![Len(wal_file)].payload = PSetByte(@, i, Xor(PByte(@, i), mask))])
            /\ damage' = [kind |-> "altered", k |-> Len(wal_file)]

NextReopen ==
    \/ WalOpen
    \/ ReopenAppend
    \/ TornCrash
    \/ ChecksumCrash

SpecReopen == Init /\ [][NextReopen]_vars

\* The records read_all returns hold r.
ReadBack(r) ==
    \E j \in DOMAIN read_all(wal_file, wal_good) : read_all(wal_file, wal_good)[j] = r

\* C35: once the WAL is open again on a file whose last record was cut off
\* or fails its checksum, read_all returns every record appended since.
C35_ReadAfterReopen ==
    (damage # NoDamage /\ is_open_) =>
        \A i \in (damage.k + 1)..Len(wal_file) : ReadBack(RecordOf(wal_file[i]))


\* C36: when recover() has returned, every record it processed is counted in
\* one of records_applied, records_skipped and errors, and in one only.
C36_CountersAddUp ==
    (recovered.called /\ rec_pc = "done") =>
        stats_.records_processed
            = stats_.records_applied + stats_.records_skipped + stats_.errors


\* No guard becomes valid in a step taken after initiate has started.
NoNewGuard ==
    \A t \in Callers : (shutdown_.shutdown_started_ /\ ~sd[t].valid_) => ~sd'[t].valid_

\* The callbacks from FLUSH_WAL on that start with the deadline a second or
\* more away, that is after a wait_all_complete that saw active_count_ == 0,
\* start with no operation in progress.
StaysDrained ==
    \A k \in Starts : (ran[k].phase >= FLUSH_WAL /\ ran[k].zone = 0) => ran[k].active = 0

\* C37: once initiate has started no ActiveOperationGuard becomes valid, and
\* after the drain has seen a count of 0 no operation is in progress while
\* the callbacks of the later phases run.
C37_NoOperationAfterDrain == [][NoNewGuard]_vars /\ []StaysDrained


(***************************************************************************)
(* ThreadPool (src/unnamed/part_008:12-103,                                *)
(*             src/src/core/signal_handler.hpp:191-254)                    *)
(* The listener thread submits tasks; the main thread calls shutdown(), as *)
(* the DRAIN_CONNECTIONS callback and again as ~ThreadPool.  What a thread *)
(* does under mutex_ is one step.  A worker in condition_.wait stands at   *)
(* "waiting" until a notify wakes it, or by itself (a spurious wakeup).    *)
(***************************************************************************)
threadPoolRest ==
    <<rwVars, walVars, storeVars, execVars, pageVars, memVars, trackVars, shutVars, recVars,
      lruVars>>

\* The workers in condition_.wait.
Sleeping == {w \in PoolWorkers : tp.worker[w].pc = "waiting"}

\* The workers after notify_all, and after a notify_one that wakes w.
WokenAll(workers) ==
    [w \in PoolWorkers |-> IF workers[w].pc = "waiting"
                           THEN [workers[w] EXCEPT !.pc = "lock"] ELSE workers[w]]

\* The task ids of the submit calls that were accepted.
AcceptedTasks == {k \in DOMAIN tp.submits : tp.submits[k].accepted}

\* submit(task) up to the end of its block: with stop_ set it throws, else
\* the task is pushed.  The k-th call submits task k.
SubmitLocked ==
    /\ tp.listener = "idle"
    /\ Len(tp.submits) < MaxTasks
    /\ IF pool_.stop_
       THEN /\ tp' = [tp EXCEPT !.submits = Append(@, [stopped |-> TRUE, accepted |-> FALSE])]
            /\ UNCHANGED pool_
       ELSE /\ pool_' = [pool_ EXCEPT !.tasks_ = Append(@, Len(tp.submits) + 1)]
            /\ tp' = [tp EXCEPT !.submits = Append(@, [stopped |-> FALSE, accepted |-> TRUE]),
                                !.listener = "notify"]
    /\ UNCHANGED threadPoolRest

\* submit: condition_.notify_one(), which wakes one waiting worker if there
\* is one.
SubmitNotify ==
    /\ tp.listener = "notify"
    /\ IF Sleeping = {}
       THEN tp' = [tp EXCEPT !.listener = "idle"]
       ELSE \E w \in Sleeping :
                tp' = [tp EXCEPT !.listener = "idle", !.worker[w].pc = "lock"]
    /\ UNCHANGED <<pool_, threadPoolRest>>

\* A mutant of the exit test of worker_loop: the worker leaves as soon as
\* stop_ is set.
ExitsWhenStopped(p) == p.stop_

\* worker_loop: `if (stop_ && tasks_.empty()) return;`
WorkerExits(p) == p.stop_ /\ p.tasks_ = <<>>

\* worker_loop under mutex_: the wait (the predicate is false: the worker
\* waits), the exit test, and the pop.
WorkerLocked(w) ==
    /\ tp.worker[w].pc = "lock"
    /\ IF ~(pool_.stop_ \/ pool_.tasks_ # <<>>)
       THEN /\ tp' = [tp EXCEPT !.worker[w].pc = "waiting"]
            /\ UNCHANGED pool_
       ELSE IF WorkerExits(pool_)
       THEN /\ tp' = [tp EXCEPT !.worker[w].pc = "exited"]
            /\ UNCHANGED pool_
       ELSE IF pool_.tasks_ # <<>>
       THEN /\ pool_' = [pool_ EXCEPT !.tasks_ = Tail(@)]
            /\ tp' = [tp EXCEPT !.worker[w] = [pc |-> "run", task |-> Head(pool_.tasks_)],
                                !.executed[Head(pool_.tasks_)] = @ + 1]
       ELSE /\ tp' = [tp EXCEPT !.worker[w].pc = "lock"]
            /\ UNCHANGED pool_
    /\ UNCHANGED threadPoolRest

\* condition_.wait returns without a notify.
WorkerWakes(w) ==
    /\ tp.worker[w].pc = "waiting"
    /\ pool_.stop_ \/ pool_.tasks_ # <<>>
    /\ tp' = [tp EXCEPT !.worker[w].pc = "lock"]
    /\ UNCHANGED <<pool_, threadPoolRest>>

\* task() returns or throws; what it throws is caught and logged.
WorkerRuns(w) ==
    /\ tp.worker[w].pc = "run"
    /\ tp' = [tp EXCEPT !.worker[w] = [pc |-> "lock", task |-> 0],
                        !.finished = @ \cup {tp.worker[w].task}]
    /\ UNCHANGED <<pool_, threadPoolRest>>

\* shutdown(): stop_.exchange(true) under mutex_; a pool that was stopped
\* already is left at once.
ShutdownLocked ==
    /\ tp.main.pc = "idle"
    /\ tp.main.calls < 2
    /\ IF pool_.stop_
       THEN /\ tp' = [tp EXCEPT !.main.calls = @ + 1, !.main.returned = @ + 1]
            /\ UNCHANGED pool_
       ELSE /\ pool_' = [pool_ EXCEPT !.stop_ = TRUE]
            /\ tp' = [tp EXCEPT !.main.calls = @ + 1, !.main.pc = "notify_all",
                                !.queued_at_stop = pool_.tasks_]
    /\ UNCHANGED threadPoolRest

\* shutdown(): condition_.notify_all()
ShutdownNotifyAll ==
    /\ tp.main.pc = "notify_all"
    /\ tp' = [tp EXCEPT !.worker = WokenAll(@), !.main.pc = "join", !.main.i = 1]
    /\ UNCHANGED <<pool_, threadPoolRest>>

\* shutdown(): worker.join() returns when the worker has left worker_loop;
\* after the last join shutdown returns.
ShutdownJoin ==
    /\ tp.main.pc = "join"
    /\ tp.worker[tp.main.i].pc = "exited"
    /\ tp' = IF tp.main.i < NWorkers
             THEN [tp EXCEPT !.main.i = @ + 1]
             ELSE [tp EXCEPT !.main.pc = "idle", !.main.returned = @ + 1]
    /\ UNCHANGED <<pool_, threadPoolRest>>

NextThreadPool ==
    \/ SubmitLocked
    \/ SubmitNotify
    \/ ShutdownLocked
    \/ ShutdownNotifyAll
    \/ ShutdownJoin
    \/ \E w \in PoolWorkers :
           \/ WorkerLocked(w)
           \/ WorkerWakes(w)
           \/ WorkerRuns(w)

SpecThreadPool == Init /\ [][NextThreadPool]_vars

\* C38: no task is run twice and only accepted tasks are run; when shutdown()
\* has returned every accepted task was run once and has finished, those
\* that were queued when it was called as well; and a submit is rejected
\* when, and only when, the pool was stopped already.
C38_AcceptedRunOnce ==
    /\ \A k \in 1..MaxTasks :
          /\ tp.executed[k] <= 1
          /\ tp.executed[k] = 1 => k \in AcceptedTasks
          /\ k \in tp.finished => tp.executed[k] = 1
    /\ tp.main.returned > 0 =>
          \A k \in AcceptedTasks : tp.executed[k] = 1 /\ k \in tp.finished
    /\ \A k \in DOMAIN tp.submits : tp.submits[k].accepted = ~tp.submits[k].stopped
    /\ \A k \in DOMAIN tp.submits :
          (~tp.submits[k].accepted) => tp.executed[k] = 0 /\ pool_.stop_

\* shutdown() has returned on a pool that had two tasks in its queue when it
\* was called: both were run and have finished.
C38_Witness ==
    /\ tp.main.returned > 0
    /\ Len(tp.queued_at_stop) = 2
    /\ \A k \in 1..2 : tp.executed[k] = 1 /\ k \in tp.finished
    /\ pool_.tasks_ = <<>>


\* No thread holds the write lock or is inside lock_write.
NoWriteActivity ==
    /\ ~writer_
    /\ waiting_writers_ = 0
    /\ \A t \in Threads : pc[t] \notin {"wr_wait", "wr_wake", "wr_locked"}

\* No reader is left in read_cv_.wait, unnotified, while its predicate holds.
NoReaderLeftWaiting == ~(ReadWaiters # {} /\ ~writer_ /\ waiting_writers_ = 0)

\* C39: if from some point on no thread holds or asks for the write lock,
\* every thread blocked in lock_read acquires the read lock in the end; and
\* no unlock_read or unlock_write leaves a reader waiting while writer_ is
\* false and waiting_writers_ is 0.
C39_ReadersAcquire ==
    /\ <>[]NoWriteActivity =>
           \A t \in Threads : (pc[t] \in {"rd_wait", "rd_wake"}) ~> (pc[t] = "rd_locked")
    /\ []NoReaderLeftWaiting

\* unlock_write has woken two blocked readers and no writer is left.
C39_Witness ==
    /\ NoWriteActivity
    /\ Cardinality({t \in Threads : pc[t] = "rd_wake"}) = 2


(***************************************************************************)
(* LimitOperator over a child with given rows                              *)
(* (src/src/executor/executor.cpp:114-146).  The operator is built and     *)
(* opened for a child of up to MaxChildRows rows, a limit and an offset;   *)
(* its caller calls next until it returns false, and keeps the rows.       *)
(***************************************************************************)
MaxChildRows == 4
MaxLimit == 3
MaxOffset == 5

\* The rows c1..cn of the child, each unlike the others.
ChildRows(n) == [k \in 1..n |-> <<k>>]

\* LimitOperator(child, limit, offset) after open.
LimitOperator(rows, limit, offset) ==
    [type |-> "LIMIT", child_ |-> RowsOperator(rows), limit_ |-> limit, offset_ |-> offset,
     skipped_ |-> 0, returned_ |-> 0]

InitLimit ==
    /\ InitRW
    /\ InitStorage
    /\ InitPage
    /\ InitMem
    /\ InitTrack
    /\ InitShut
    /\ InitRec
    /\ InitLru
    /\ InitThreadPool
    /\ catalog_ = [tables |-> [n \in {"t"} |-> [id |-> 0]], next_table_id_ |-> 1]
    /\ ctx = start(NewExecutionContext(WideBudget, 0))
    /\ \E n \in 0..MaxChildRows, limit \in (-1)..MaxLimit, offset \in 0..MaxOffset :
           plan_ = [stmt |-> [type |-> "NONE"],
                    plan |-> [type |-> "LIMIT", limit |-> limit, offset |-> offset,
                              child |-> [type |-> "ROWS", rows |-> ChildRows(n)]],
                    op |-> LimitOperator(ChildRows(n), limit, offset)]
    /\ result = [success |-> FALSE, rows |-> <<>>]
    /\ before = [wal |-> <<>>, pm |-> page_manager_]
    /\ history = [inserted |-> <<>>, redone |-> 0]

\* One call of next by the caller, which stops at the first false.
LimitNext ==
    /\ ~result.success
    /\ \E p \in {Operator_next(plan_.op, ctx, page_manager_, TRUE)} :
           /\ plan_' = [plan_ EXCEPT !.op = p.op]
           /\ ctx' = p.ctx
           /\ result' = IF p.ok THEN [result EXCEPT !.rows = Append(@, p.row)]
                        ELSE [result EXCEPT !.success = TRUE]
    /\ UNCHANGED <<rwVars, walVars, storeVars, pageVars, memVars, trackVars, shutVars,
                   recVars, lruVars, threadPoolVars, catalog_, before, history>>

SpecLimit == InitLimit /\ [][LimitNext]_vars

\* The rows c(offset+1) .. c(min(n, offset+limit)) of rows, all those after
\* the offset when limit < 0.
Window(rows, limit, offset) ==
    SubSeq(rows, offset + 1,
           IF limit < 0 \/ offset + limit > Len(rows) THEN Len(rows) ELSE offset + limit)

\* C40: Limit(limit, offset) over a child with the rows c1..cn yields the
\* rows c(offset+1) .. c(min(n, offset+limit)) in order, all rows after the
\* offset when limit < 0, and none when offset >= n.
C40_LimitWindow ==
    /\ Len(result.rows) <= Len(Window(plan_.plan.child.rows, plan_.plan.limit, plan_.plan.offset))
    /\ result.rows = SubSeq(Window(plan_.plan.child.rows, plan_.plan.limit, plan_.plan.offset),
                            1, Len(result.rows))
    /\ result.success =>
           result.rows = Window(plan_.plan.child.rows, plan_.plan.limit, plan_.plan.offset)
    /\ (result.success /\ plan_.plan.offset >= Len(plan_.plan.child.rows)) =>
           result.rows = <<>>

\* Limit(2, 1) over four rows has yielded the second and the third and has
\* returned false.
C40_Witness ==
    /\ result.success
    /\ plan_.plan.limit = 2 /\ plan_.plan.offset = 1
    /\ Len(plan_.plan.child.rows) = 4
    /\ result.rows = <<<<2>>, <<3>>>>

====
